---- MODULE Spec2Model ----
(***************************************************************************)
(* Model of scone-hunter's target aggregator                               *)
(* (src/scone_hunter/discovery/aggregator.py, class TargetAggregator),     *)
(* of the raw fetches of its two fetchers (discovery/immunefi.py,          *)
(* discovery/defillama.py) and of the findings notifier                    *)
(* (aggregator/notifier.py). Each component has its own variables and its  *)
(* own specifications; the variables of the others stay as they start.     *)
(*                                                                         *)
(* Conventions of the model:                                               *)
(*  - money amounts (max_bounty, tvl) are in thousands of USD;             *)
(*  - priority scores are in hundredths of a point (the code rounds to     *)
(*    two decimals);                                                       *)
(*  - the clock counts ticks, TicksPerDay ticks to the day for the         *)
(*    aggregator and TicksPerHour ticks to the hour for the notifier;      *)
(*  - an address is a sequence of characters, so that str.lower() is a     *)
(*    real conversion; the empty sequence stands for None / "";            *)
(*  - a Python dict is an association list in insertion order;             *)
(*  - an optional timestamp is <<>> (None) or an ISO pair <<day, tick>>.   *)
(***************************************************************************)
EXTENDS Integers, Sequences, FiniteSets, TLC

VARIABLES now, steps, alive, targets, scanned, targetsFile, scannedFile, lastOp,
          cache, lastGood, lastFetch,
          config, sent, sentFile, lastNotify,
          loop, payloads,
          lastCall,
          scan, rpc, run

aggVars == <<now, steps, alive, targets, scanned, targetsFile, scannedFile, lastOp>>
fetchVars == <<cache, lastGood, lastFetch>>
notifyVars == <<config, sent, sentFile, lastNotify>>
harvestVars == <<loop, payloads>>
pureVars == <<lastCall>>
toolVars == <<scan, rpc, run>>
vars == <<aggVars, fetchVars, notifyVars, harvestVars, pureVars, toolVars>>

(***************************** bounds ***************************************)
\* mutating calls and constructions in one behaviour
MaxSteps == 2
\* last tick of the clock
MaxTime == 3
\* resolution of the clock
TicksPerDay == 2
TicksPerHour == 2

(***************************** values ***************************************)
NONE == "None"
NoTime == <<>>
NoAddress == <<>>

Procs == {1, 2}

AddrUpper == <<"0", "x", "A">>
AddrLower == <<"0", "x", "a">>
AddrOther == <<"0", "x", "b">>
Sessions == {NONE, "s1"}

\* the contracts a caller names in add_manual_target and mark_scanned
Contracts ==
    {[chain |-> "ethereum", address |-> AddrUpper],
     [chain |-> "base", address |-> AddrOther],
     [chain |-> "polygon", address |-> AddrOther]}

Min(a, b) == IF a <= b THEN a ELSE b
Max(a, b) == IF a >= b THEN a ELSE b

\* str.lower(), character by character
LowerChar(c) ==
    CASE c = "A" -> "a" [] c = "B" -> "b" [] c = "C" -> "c" [] c = "D" -> "d" [] c = "E" -> "e"
      [] c = "F" -> "f" [] c = "G" -> "g" [] c = "H" -> "h" [] c = "I" -> "i" [] c = "J" -> "j"
      [] c = "K" -> "k" [] c = "L" -> "l" [] c = "M" -> "m" [] c = "N" -> "n" [] c = "O" -> "o"
      [] c = "P" -> "p" [] c = "Q" -> "q" [] c = "R" -> "r" [] c = "S" -> "s" [] c = "T" -> "t"
      [] c = "U" -> "u" [] c = "V" -> "v" [] c = "W" -> "w" [] c = "X" -> "x" [] c = "Y" -> "y"
      [] c = "Z" -> "z"
      [] OTHER -> c
Lower(s) == [i \in 1..Len(s) |-> LowerChar(s[i])]

\* bool(x) of an optional string
Truthy(s) == s # NONE /\ s # ""

\* datetime.isoformat() / datetime.fromisoformat()
IsoFormat(t) == <<t \div TicksPerDay, t % TicksPerDay>>
FromIsoFormat(s) == s[1] * TicksPerDay + s[2]

(***************************** dict *****************************************)
\* a dict is a sequence of [k, t] entries with pairwise different k
DictHas(d, key) == \E i \in 1..Len(d) : d[i].k = key
DictIndex(d, key) == CHOOSE i \in 1..Len(d) : d[i].k = key
DictGet(d, key) == d[DictIndex(d, key)].t
\* d[key] = t: an existing key keeps its place, a new key goes last
DictPut(d, key, t) ==
    IF DictHas(d, key)
    THEN [d EXCEPT ![DictIndex(d, key)] = [k |-> key, t |-> t]]
    ELSE Append(d, [k |-> key, t |-> t])
DictValues(d) == [i \in 1..Len(d) |-> d[i].t]

\* the scan history: a dict whose order is never read, kept as a function
EmptyHistory == [k \in {} |-> 0]
HistoryPut(h, key, e) == [k \in DOMAIN h \cup {key} |-> IF k = key THEN e ELSE h[k]]

(***************************** identity key *********************************)
\* the key without lower(): letter case tells two targets apart
TargetKeyCaseSensitive(chain, address) == <<chain, address>>

\* f"{chain}:{address.lower()}"
TargetKey(chain, address) == <<chain, Lower(address)>>

(***************************** priority *************************************)
\* 10 * log10(max_bounty / 1000 + 1) in millionths of a point, for the
\* bounties of the model (max_bounty in thousands of USD)
TenLog10Bounty(b) ==
    CASE b = 7 -> 9030900
      [] b = 10 -> 10413927
      [] b = 25 -> 14149733
      [] b = 50 -> 17075702
      [] b = 100 -> 20043214
      [] b = 1000 -> 30004341
      [] b = 10000 -> 40000434
      [] b = 1000000 -> 60000004
      [] b = 1000000000 -> 90000000

\* 5 * log10(tvl / 100_000 + 1) in millionths of a point, for the TVLs of
\* the model (tvl in thousands of USD)
FiveLog10Tvl(t) ==
    CASE t = 1000 -> 5206963
      [] t = 10000 -> 10021607
      [] t = 50000 -> 13499189
      [] t = 1000000 -> 20000217
      [] t = 100000000 -> 30000002
      [] t = 1000000000 -> 35000000

Million == 1000000
BOUNTY_CAP == 40
TVL_CAP == 30
BOUNTY_BONUS == 20

ChainScore(chain) ==
    CASE chain = "ethereum" -> 10
      [] chain = "base" -> 9
      [] chain = "arbitrum" -> 8
      [] chain = "optimism" -> 7
      [] chain = "polygon" -> 6
      [] chain = "bsc" -> 5
      [] OTHER -> 3

\* round(score, 2), from millionths to hundredths
Round2(micro) == (micro + 5000) \div 10000

\* _calculate_priority with a bounty part that is dropped past the cap
CalculatePriorityDropsPastCap(max_bounty, tvl, has_bounty, chain) ==
    LET bountyPart == IF max_bounty > 0 /\ TenLog10Bounty(max_bounty) <= BOUNTY_CAP * Million
                      THEN TenLog10Bounty(max_bounty)
                      ELSE 0
        tvlPart == IF tvl > 0
                   THEN Min(TVL_CAP * Million, FiveLog10Tvl(tvl))
                   ELSE 0
        bonus == IF has_bounty THEN BOUNTY_BONUS * Million ELSE 0
    IN Round2(bountyPart + tvlPart + bonus + ChainScore(chain) * Million)

\* _calculate_priority without the two caps
CalculatePriorityUncapped(max_bounty, tvl, has_bounty, chain) ==
    LET bountyPart == IF max_bounty > 0 THEN TenLog10Bounty(max_bounty) ELSE 0
        tvlPart == IF tvl > 0 THEN FiveLog10Tvl(tvl) ELSE 0
        bonus == IF has_bounty THEN BOUNTY_BONUS * Million ELSE 0
    IN Round2(bountyPart + tvlPart + bonus + ChainScore(chain) * Million)

CalculatePriority(max_bounty, tvl, has_bounty, chain) ==
    LET bountyPart == IF max_bounty > 0
                      THEN Min(BOUNTY_CAP * Million, TenLog10Bounty(max_bounty))
                      ELSE 0
        tvlPart == IF tvl > 0
                   THEN Min(TVL_CAP * Million, FiveLog10Tvl(tvl))
                   ELSE 0
        bonus == IF has_bounty THEN BOUNTY_BONUS * Million ELSE 0
    IN Round2(bountyPart + tvlPart + bonus + ChainScore(chain) * Million)

(***************************** fetcher results ******************************)
\* BountyTarget records as ImmunefiFetcher.get_targets returns them with the
\* default arguments: a valid address, an allowed chain, max_bounty at least
\* min_bounty (assets_in_scope, which the aggregator never reads, is left out).
BountyFoo ==
    [program |-> "Foo", address |-> AddrUpper, chain |-> "ethereum",
     name |-> "Foo Vault", max_bounty |-> 100, category |-> "defi",
     url |-> "immunefi/foo"]
BountyBar ==
    [program |-> "Bar", address |-> AddrOther, chain |-> "base",
     name |-> "Bar Pool", max_bounty |-> 25, category |-> "defi",
     url |-> "immunefi/bar"]
\* the programs the provider lists, in the order of its page
BountyCatalogue == <<BountyFoo, BountyBar>>

\* ProtocolTarget records as DefiLlamaFetcher.get_top_overall returns them:
\* total TVL at least 10M USD, a target chain, an address that may be None
\* (slug and github, which the aggregator never reads, are left out).  The two
\* Aave records name the same contract in different letter case.
ProtoAave ==
    [name |-> "Aave", tvl |-> 50000, chain |-> "ethereum",
     category |-> "Lending", address |-> AddrLower, url |-> "aave.com"]
ProtoNoAddr ==
    [name |-> "Uni", tvl |-> 50000, chain |-> "base",
     category |-> "Dexes", address |-> NoAddress, url |-> "uni.org"]
ProtoAaveDip ==
    [name |-> "Aave V2", tvl |-> 10000, chain |-> "ethereum",
     category |-> "Lending", address |-> AddrUpper, url |-> "aave.com"]
\* the protocols the provider lists; get_top_overall sorts by tvl, largest first
ProtocolCatalogue == <<ProtoAave, ProtoNoAddr, ProtoAaveDip>>

\* the sub-lists of a catalogue: what one fetch can return of it
RECURSIVE SubLists(_)
SubLists(cat) ==
    IF cat = <<>> THEN {<<>>}
    ELSE LET rest == SubLists(Tail(cat))
         IN rest \cup {<<Head(cat)>> \o r : r \in rest}

BountyBatches == SubLists(BountyCatalogue)
ProtocolBatches == SubLists(ProtocolCatalogue)

DEFAULT_MIN_TVL == 10000
MinTvls == {DEFAULT_MIN_TVL, 50000}

(***************************** persistence **********************************)
NoFile == [exists |-> FALSE, data |-> <<>>]

\* the loop of _load_state with keys that keep the letter case of the file
RECURSIVE LoadTargetsKeepsCase(_, _)
LoadTargetsKeepsCase(data, d) ==
    IF data = <<>> THEN d
    ELSE LET t == Head(data)
         IN LoadTargetsKeepsCase(Tail(data),
                                 DictPut(d, TargetKeyCaseSensitive(t.chain, t.address), t))

RECURSIVE LoadTargets(_, _)
LoadTargets(data, d) ==
    IF data = <<>> THEN d
    ELSE LET t == Head(data)
         IN LoadTargets(Tail(data), DictPut(d, TargetKey(t.chain, t.address), t))

\* _load_state: the memory of an aggregator built on the two files
LoadState(tfile, sfile) ==
    [targets |-> IF tfile.exists THEN LoadTargets(tfile.data, <<>>) ELSE <<>>,
     scanned |-> IF sfile.exists THEN sfile.data ELSE EmptyHistory]

\* _save_state on a machine state m = [targets, scanned, tfile, sfile, saves]
SaveState(m) ==
    [m EXCEPT !.tfile = [exists |-> TRUE, data |-> DictValues(m.targets)],
              !.sfile = [exists |-> TRUE, data |-> m.scanned],
              !.saves = @ + 1]

(***************************** refresh **************************************)
NewFromBounty(t) ==
    [address |-> t.address, chain |-> t.chain, name |-> t.name,
     program |-> t.program, max_bounty |-> t.max_bounty, tvl |-> 0,
     priority_score |-> CalculatePriority(t.max_bounty, 0, TRUE, t.chain),
     source |-> "immunefi", category |-> t.category, url |-> t.url,
     last_scanned |-> NoTime]

\* the update branch with the record's bounty in place of the maximum
MergeBountyOverwrite(old, t) ==
    [old EXCEPT !.max_bounty = t.max_bounty, !.program = t.program]

\* the update branch of refresh_immunefi
MergeBounty(old, t) ==
    [old EXCEPT !.max_bounty = Max(old.max_bounty, t.max_bounty),
                !.program = t.program]

RECURSIVE ImmunefiLoop(_, _, _)
ImmunefiLoop(d, ts, added) ==
    IF ts = <<>> THEN [targets |-> d, added |-> added]
    ELSE LET t == Head(ts)
             key == TargetKey(t.chain, t.address)
         IN IF DictHas(d, key)
            THEN ImmunefiLoop(DictPut(d, key, MergeBounty(DictGet(d, key), t)),
                              Tail(ts), added)
            ELSE ImmunefiLoop(DictPut(d, key, NewFromBounty(t)), Tail(ts), added + 1)

\* refresh_immunefi building the pool anew from the feed
RefreshImmunefiRebuild(d, ts) == ImmunefiLoop(<<>>, ts, 0)

\* refresh_immunefi on the pool d, ts being what get_targets returned
RefreshImmunefi(d, ts) == ImmunefiLoop(d, ts, 0)

NewFromProtocol(t) ==
    [address |-> t.address, chain |-> t.chain, name |-> t.name,
     program |-> NONE, max_bounty |-> 0, tvl |-> t.tvl,
     priority_score |-> CalculatePriority(0, t.tvl, FALSE, t.chain),
     source |-> "defillama", category |-> t.category, url |-> t.url,
     last_scanned |-> NoTime]

\* the update branch of refresh_defillama
MergeProtocol(old, t) ==
    [old EXCEPT !.tvl = t.tvl,
                !.priority_score =
                    CalculatePriority(old.max_bounty, t.tvl, Truthy(old.program), t.chain)]

\* the loop of refresh_defillama counting merged records as added too
RECURSIVE DefillamaLoopCountMerged(_, _, _, _)
DefillamaLoopCountMerged(d, ts, min_tvl, added) ==
    IF ts = <<>> THEN [targets |-> d, added |-> added]
    ELSE LET t == Head(ts)
             key == TargetKey(t.chain, t.address)
         IN IF t.address = NoAddress \/ t.tvl < min_tvl
            THEN DefillamaLoopCountMerged(d, Tail(ts), min_tvl, added)
            ELSE IF DictHas(d, key)
                 THEN DefillamaLoopCountMerged(
                          DictPut(d, key, MergeProtocol(DictGet(d, key), t)),
                          Tail(ts), min_tvl, added + 1)
                 ELSE DefillamaLoopCountMerged(DictPut(d, key, NewFromProtocol(t)),
                                               Tail(ts), min_tvl, added + 1)

RECURSIVE DefillamaLoop(_, _, _, _)
DefillamaLoop(d, ts, min_tvl, added) ==
    IF ts = <<>> THEN [targets |-> d, added |-> added]
    ELSE LET t == Head(ts)
             key == TargetKey(t.chain, t.address)
         IN IF t.address = NoAddress \/ t.tvl < min_tvl
            THEN DefillamaLoop(d, Tail(ts), min_tvl, added)
            ELSE IF DictHas(d, key)
                 THEN DefillamaLoop(DictPut(d, key, MergeProtocol(DictGet(d, key), t)),
                                    Tail(ts), min_tvl, added)
                 ELSE DefillamaLoop(DictPut(d, key, NewFromProtocol(t)),
                                    Tail(ts), min_tvl, added + 1)

\* refresh_defillama on the pool d, ts being what get_top_overall returned
RefreshDefillama(d, ts, min_tvl) == DefillamaLoop(d, ts, min_tvl, 0)

\* refresh_all that saves between the two fetchers
RefreshAllSaveEarly(m, bounty, protocols) ==
    LET r1 == RefreshImmunefi(m.targets, bounty)
        saved == SaveState([m EXCEPT !.targets = r1.targets])
        r2 == RefreshDefillama(r1.targets, protocols, DEFAULT_MIN_TVL)
    IN [m |-> [saved EXCEPT !.targets = r2.targets],
        ret |-> [immunefi |-> r1.added, defillama |-> r2.added,
                 total_targets |-> Len(r2.targets)]]

\* refresh_all with the two fetchers in the other order
RefreshAllTvlFirst(m, bounty, protocols) ==
    LET r2 == RefreshDefillama(m.targets, protocols, DEFAULT_MIN_TVL)
        r1 == RefreshImmunefi(r2.targets, bounty)
    IN [m |-> SaveState([m EXCEPT !.targets = r1.targets]),
        ret |-> [immunefi |-> r1.added, defillama |-> r2.added,
                 total_targets |-> Len(r1.targets)]]

\* refresh_all on a machine state: [m |-> the state after, ret |-> the dict returned]
RefreshAll(m, bounty, protocols) ==
    LET r1 == RefreshImmunefi(m.targets, bounty)
        r2 == RefreshDefillama(r1.targets, protocols, DEFAULT_MIN_TVL)
    IN [m |-> SaveState([m EXCEPT !.targets = r2.targets]),
        ret |-> [immunefi |-> r1.added, defillama |-> r2.added,
                 total_targets |-> Len(r2.targets)]]

(***************************** manual target, mark_scanned ******************)
AddManualTarget(m, address, chain, name, program, max_bounty) ==
    LET key == TargetKey(chain, address)
        t == [address |-> address, chain |-> chain, name |-> name,
              program |-> program, max_bounty |-> max_bounty, tvl |-> 0,
              priority_score |->
                  CalculatePriority(max_bounty, 0, Truthy(program), chain),
              source |-> "manual", category |-> "manual", url |-> NONE,
              last_scanned |-> NoTime]
    IN SaveState([m EXCEPT !.targets = DictPut(m.targets, key, t)])

\* mark_scanned without the final _save_state
MarkScannedUnsaved(m, address, chain, session_id, t1, t2) ==
    LET key == TargetKey(chain, address)
        entry == [timestamp |-> IsoFormat(t1), session_id |-> session_id]
        h == HistoryPut(m.scanned, key, entry)
        d == IF DictHas(m.targets, key)
             THEN DictPut(m.targets, key,
                          [DictGet(m.targets, key) EXCEPT !.last_scanned = IsoFormat(t2)])
             ELSE m.targets
    IN [m EXCEPT !.scanned = h, !.targets = d]

\* mark_scanned; t1 and t2 are the clock at the two datetime.now() calls
MarkScanned(m, address, chain, session_id, t1, t2) ==
    LET key == TargetKey(chain, address)
        entry == [timestamp |-> IsoFormat(t1), session_id |-> session_id]
        h == HistoryPut(m.scanned, key, entry)
        d == IF DictHas(m.targets, key)
             THEN DictPut(m.targets, key,
                          [DictGet(m.targets, key) EXCEPT !.last_scanned = IsoFormat(t2)])
             ELSE m.targets
    IN SaveState([m EXCEPT !.scanned = h, !.targets = d])

(***************************** get_unscanned ********************************)
\* list.sort(key=priority_score, reverse=True): stable, largest first
\* the sort without reverse=True: smallest first
RECURSIVE InsertByScoreAscending(_, _)
InsertByScoreAscending(sorted, t) ==
    IF sorted = <<>> THEN <<t>>
    ELSE IF Head(sorted).priority_score <= t.priority_score
         THEN <<Head(sorted)>> \o InsertByScoreAscending(Tail(sorted), t)
         ELSE <<t>> \o sorted

RECURSIVE InsertByScore(_, _)
InsertByScore(sorted, t) ==
    IF sorted = <<>> THEN <<t>>
    ELSE IF Head(sorted).priority_score >= t.priority_score
         THEN <<Head(sorted)>> \o InsertByScore(Tail(sorted), t)
         ELSE <<t>> \o sorted

RECURSIVE SortByScore(_, _)
SortByScore(ts, acc) ==
    IF ts = <<>> THEN acc ELSE SortByScore(Tail(ts), InsertByScore(acc, Head(ts)))

\* s[:limit]
Slice(s, limit) ==
    IF limit >= 0 THEN SubSeq(s, 1, Min(limit, Len(s)))
    ELSE SubSeq(s, 1, Max(0, Len(s) + limit))

\* the recency test with the comparison turned round
RecentlyScannedInverted(h, key, cutoff) ==
    key \in DOMAIN h /\ FromIsoFormat(h[key].timestamp) < cutoff

\* the recency test without the cutoff: a scanned key stays excluded
RecentlyScannedForever(h, key, cutoff) ==
    key \in DOMAIN h

RecentlyScanned(h, key, cutoff) ==
    key \in DOMAIN h /\ FromIsoFormat(h[key].timestamp) > cutoff

\* the loop of get_unscanned reading the target's own last_scanned
RECURSIVE UnscannedByRecord(_, _, _)
UnscannedByRecord(d, h, cutoff) ==
    IF d = <<>> THEN <<>>
    ELSE IF Head(d).t.last_scanned # NoTime
            /\ FromIsoFormat(Head(d).t.last_scanned) > cutoff
         THEN UnscannedByRecord(Tail(d), h, cutoff)
         ELSE <<Head(d).t>> \o UnscannedByRecord(Tail(d), h, cutoff)

RECURSIVE Unscanned(_, _, _)
Unscanned(d, h, cutoff) ==
    IF d = <<>> THEN <<>>
    ELSE IF RecentlyScanned(h, Head(d).k, cutoff)
         THEN Unscanned(Tail(d), h, cutoff)
         ELSE <<Head(d).t>> \o Unscanned(Tail(d), h, cutoff)

GetUnscanned(d, h, clock, limit, days_since_scan) ==
    LET cutoff == clock - days_since_scan * TicksPerDay
    IN Slice(SortByScore(Unscanned(d, h, cutoff), <<>>), limit)

(***************************** reads *****************************************)
\* the arguments get_unscanned is called with
DEFAULT_LIMIT == 100
DEFAULT_DAYS == 7
Limits == {-1, 0, 1, DEFAULT_LIMIT}
Days == {0, 1, DEFAULT_DAYS}
DEFAULT_BOUNTY_ESTIMATE == 50

\* the three read operations as calls on a machine state:
\* [m |-> the state after, ret |-> what is returned]

GetUnscannedCall(m, clock, limit, days_since_scan) ==
    [m |-> m, ret |-> GetUnscanned(m.targets, m.scanned, clock, limit, days_since_scan)]

JulesEntry(t) ==
    [address |-> t.address, chain |-> t.chain, name |-> t.name,
     program |-> IF Truthy(t.program) THEN t.program ELSE "Unknown",
     max_bounty |-> IF t.max_bounty # 0 THEN t.max_bounty ELSE DEFAULT_BOUNTY_ESTIMATE]

\* get_batch_for_jules writing the defaults it reports back into the pool
GetBatchForJulesWritingDefaults(m, clock, batch_size) ==
    LET ts == GetUnscanned(m.targets, m.scanned, clock, batch_size,
                           DEFAULT_DAYS)
        fill(t) == [t EXCEPT !.program = JulesEntry(t).program,
                             !.max_bounty = JulesEntry(t).max_bounty]
    IN [m |-> [m EXCEPT !.targets =
                   [j \in 1..Len(m.targets) |->
                       [k |-> m.targets[j].k, t |-> fill(m.targets[j].t)]]],
        ret |-> [j \in 1..Len(ts) |-> JulesEntry(ts[j])]]

GetBatchForJules(m, clock, batch_size) ==
    LET ts == GetUnscanned(m.targets, m.scanned, clock, batch_size,
                           DEFAULT_DAYS)
    IN [m |-> m, ret |-> [j \in 1..Len(ts) |-> JulesEntry(ts[j])]]

RECURSIVE SumOf(_, _)
SumOf(ts, field) ==
    IF ts = <<>> THEN 0 ELSE Head(ts)[field] + SumOf(Tail(ts), field)

\* by_chain and by_source: how many targets carry each value of the field
CountBy(ts, field) ==
    [v \in {ts[j][field] : j \in 1..Len(ts)} |->
        Cardinality({j \in 1..Len(ts) : ts[j][field] = v})]

GetStats(m) ==
    LET ts == DictValues(m.targets)
    IN [m |-> m,
        ret |-> [total_targets |-> Len(m.targets),
                 scanned_count |-> Cardinality(DOMAIN m.scanned),
                 with_bounty_program |->
                     Cardinality({j \in 1..Len(ts) : Truthy(ts[j].program)}),
                 total_bounty_value |-> SumOf(ts, "max_bounty"),
                 total_tvl |-> SumOf(ts, "tvl"),
                 by_chain |-> CountBy(ts, "chain"),
                 by_source |-> CountBy(ts, "source")]]

(***************************** raw fetches **********************************)
\* ImmunefiFetcher.fetch_programs and DefiLlamaFetcher.fetch_protocols: one
\* HTTP request, one cache file each (immunefi_programs.json,
\* defillama_protocols.json). A cache file is absent, holds a payload, or is
\* unreadable (json.load on it raises).
Fetchers == {"immunefi", "defillama"}
Payloads == {<<>>, <<"p1">>, <<"p1", "p2">>}

NoCache == [state |-> "absent", data |-> <<>>]
BrokenCache == [state |-> "unreadable", data |-> <<>>]
Cached(payload) == [state |-> "ok", data |-> payload]

\* what the provider does with the request
ProgramOutcomes == {"ok", "network_error", "no_data", "bad_json"}
ProtocolOutcomes == {"ok", "network_error", "http_error", "bad_json"}
\* what open(cache_file, "w") / json.dump do: the write completes, open
\* raises (the file is untouched), or json.dump raises after open truncated
\* the file
Writes == {"written", "open_fails", "dump_fails"}

\* _load_cache
LoadCache(c) ==
    [raised |-> c.state = "unreadable",
     ret |-> IF c.state = "ok" THEN c.data ELSE <<>>]

\* with open(cache_file, "w") as f: json.dump(payload, f)
WriteCache(c, payload, write) ==
    CASE write = "written" -> [cache |-> Cached(payload), raised |-> FALSE]
      [] write = "open_fails" -> [cache |-> c, raised |-> TRUE]
      [] write = "dump_fails" -> [cache |-> BrokenCache, raised |-> TRUE]

\* except Exception: return self._load_cache()
\* (an exception of _load_cache inside the handler reaches the caller)
FetchHandler(c) ==
    [cache |-> c, ret |-> LoadCache(c).ret, raised |-> LoadCache(c).raised]

\* the try block from a parsed payload on: write the cache, return the payload
CacheAndReturn(c, payload, write) ==
    LET w == WriteCache(c, payload, write)
    IN IF w.raised THEN FetchHandler(w.cache)
       ELSE [cache |-> w.cache, ret |-> payload, raised |-> FALSE]

\* fetch_programs: [cache |-> the file after, ret |-> the list returned,
\* raised |-> an exception reached the caller]
FetchPrograms(c, outcome, payload, write) ==
    CASE outcome = "ok" -> CacheAndReturn(c, payload, write)
      [] outcome = "no_data" ->
            \* return self._load_cache() inside the try block
            IF LoadCache(c).raised THEN FetchHandler(c)
            ELSE [cache |-> c, ret |-> LoadCache(c).ret, raised |-> FALSE]
      [] OTHER -> FetchHandler(c)

\* fetch_protocols
FetchProtocols(c, outcome, payload, write) ==
    CASE outcome = "ok" -> CacheAndReturn(c, payload, write)
      [] OTHER -> FetchHandler(c)

NoFetch == [fetcher |-> NONE, outcome |-> NONE, write |-> NONE,
            ret |-> <<>>, raised |-> FALSE]
NoPayload == [exists |-> FALSE, data |-> <<>>]

\* no fetch has run and the cache directory is empty
FetchIdle ==
    /\ cache = [f \in Fetchers |-> NoCache]
    /\ lastGood = [f \in Fetchers |-> NoPayload]
    /\ lastFetch = NoFetch

\* no function has been called on its own
NoCall == [name |-> "init"]
PureIdle == lastCall = NoCall

\* no scan under way, no JSON-RPC client started
NoScan == [phase |-> "idle"]
NoClient == [phase |-> "idle"]
NoRun == [phase |-> "idle"]
ToolIdle == scan = NoScan /\ rpc = NoClient /\ run = NoRun

(***************************** notifier *************************************)
\* FindingsNotifier (aggregator/notifier.py). A finding is a record of the
\* fields of extractor.Finding that the notifier reads; self.sent maps the
\* hash of a finding to the ISO timestamp of its last notification.
SEVERITY_ORDER == <<"Critical", "High", "Medium", "Low">>
DEFAULT_MIN_CONFIDENCE == 70

\* the configurations a notifier is constructed with
Configs ==
    {[min_confidence |-> DEFAULT_MIN_CONFIDENCE, min_severity |-> sev, dedupe_hours |-> 1] :
        sev \in {"Critical", "High", "Medium", "Low"}}

Finding(name, address, chain, vuln_type, severity, confidence, description, sid) ==
    [contract_name |-> name, contract_address |-> address, chain |-> chain,
     vuln_type |-> vuln_type, severity |-> severity, confidence |-> confidence,
     description |-> description, session_id |-> sid]

FindingHigh == Finding("Vault", "0xA", "ethereum", "reentrancy", "High", 85, "d1", "s1")
\* the same (address, type, severity) in other words
FindingHighAgain == Finding("Pool", "0xA", "base", "reentrancy", "High", 70, "d2", "s2")
\* the same triple below the confidence threshold
FindingHighUnsure == Finding("Vault", "0xA", "ethereum", "reentrancy", "High", 69, "d1", "s1")
\* one of the three fields differs
FindingCritical == Finding("Vault", "0xA", "ethereum", "reentrancy", "Critical", 85, "d1", "s1")
FindingOverflow == Finding("Vault", "0xA", "ethereum", "overflow", "High", 85, "d1", "s1")
FindingElsewhere == Finding("Vault", "0xB", "ethereum", "reentrancy", "High", 85, "d1", "s1")
FindingMedium == Finding("Vault", "0xB", "ethereum", "overflow", "Medium", 70, "d1", "s1")
FindingLow == Finding("Vault", "0xA", "ethereum", "reentrancy", "Low", 90, "d1", "s1")
\* a severity that is none of the four names
FindingInfo == Finding("Vault", "0xA", "ethereum", "reentrancy", "Info", 99, "d1", "s1")

Findings == {FindingHigh, FindingHighAgain, FindingHighUnsure, FindingCritical,
             FindingOverflow, FindingElsewhere, FindingMedium, FindingLow, FindingInfo}

\* hashlib.md5(key).hexdigest()[:12]: taken to be free of collisions
Md5Hex12(key) == "md5(" \o key \o ")"

\* _finding_hash with the key built from address and type alone
FindingHashWithoutSeverity(finding) ==
    Md5Hex12(finding.contract_address \o ":" \o finding.vuln_type)

\* _finding_hash with the session in the key
FindingHashBySession(finding) ==
    Md5Hex12(finding.contract_address \o ":" \o finding.vuln_type
                \o ":" \o finding.severity \o ":" \o finding.session_id)

\* _finding_hash
FindingHash(finding) ==
    Md5Hex12(finding.contract_address \o ":" \o finding.vuln_type
                \o ":" \o finding.severity)

\* _is_duplicate without the window: once sent, a duplicate for ever
IsDuplicateForever(cfg, snt, clock, finding) ==
    FindingHash(finding) \in DOMAIN snt

\* _is_duplicate: hours_ago < dedupe_hours, in ticks
IsDuplicate(cfg, snt, clock, finding) ==
    LET hash_key == FindingHash(finding)
    IN IF hash_key \in DOMAIN snt
       THEN clock - FromIsoFormat(snt[hash_key]) < cfg.dedupe_hours * TicksPerHour
       ELSE FALSE

\* list.index: 0 stands for ValueError
IndexIn(order, x) ==
    IF \E j \in 1..Len(order) : order[j] = x
    THEN CHOOSE j \in 1..Len(order) :
            order[j] = x /\ \A n \in 1..(j - 1) : order[n] # x
    ELSE 0

\* _severity_meets_threshold with the comparison turned round
SeverityMeetsThresholdInverted(cfg, severity) ==
    LET finding_idx == IndexIn(SEVERITY_ORDER, severity)
        threshold_idx == IndexIn(SEVERITY_ORDER, cfg.min_severity)
    IN IF finding_idx = 0 \/ threshold_idx = 0 THEN FALSE
       ELSE finding_idx >= threshold_idx

\* _severity_meets_threshold
SeverityMeetsThreshold(cfg, severity) ==
    LET finding_idx == IndexIn(SEVERITY_ORDER, severity)
        threshold_idx == IndexIn(SEVERITY_ORDER, cfg.min_severity)
    IN IF finding_idx = 0 \/ threshold_idx = 0 THEN FALSE
       ELSE finding_idx <= threshold_idx

\* should_notify
ShouldNotify(cfg, snt, clock, finding) ==
    IF finding.confidence < cfg.min_confidence THEN FALSE
    ELSE IF ~SeverityMeetsThreshold(cfg, finding.severity) THEN FALSE
    ELSE IF IsDuplicate(cfg, snt, clock, finding) THEN FALSE
    ELSE TRUE

\* a notifier's state: [sent |-> self.sent, file |-> sent_notifications.json]
\* _mark_sent without _save_sent: the file waits for the end of the batch
MarkSentInMemory(n, clock, finding) ==
    [sent |-> HistoryPut(n.sent, FindingHash(finding), IsoFormat(clock)),
     file |-> n.file]

\* _mark_sent
MarkSent(n, clock, finding) ==
    LET snt == HistoryPut(n.sent, FindingHash(finding), IsoFormat(clock))
    IN [sent |-> snt, file |-> [exists |-> TRUE, data |-> snt]]

\* format_notification: the fields the message shows
FormatNotification(finding) ==
    [contract |-> finding.contract_name, address |-> finding.contract_address,
     chain |-> finding.chain, type |-> finding.vuln_type,
     severity |-> finding.severity, confidence |-> finding.confidence,
     description |-> finding.description]

\* the findings of the results in the order of the two loops
RECURSIVE Flatten(_)
Flatten(results) ==
    IF results = <<>> THEN <<>>
    ELSE Head(results).findings \o Flatten(Tail(results))

RECURSIVE ProcessLoop(_, _, _, _, _)
ProcessLoop(cfg, n, clock, findings, to_notify) ==
    IF findings = <<>> THEN [n |-> n, ret |-> to_notify]
    ELSE LET finding == Head(findings)
         IN IF ShouldNotify(cfg, n.sent, clock, finding)
            THEN ProcessLoop(cfg, MarkSent(n, clock, finding), clock, Tail(findings),
                             Append(to_notify, <<finding, FormatNotification(finding)>>))
            ELSE ProcessLoop(cfg, n, clock, Tail(findings), to_notify)

\* process_results: [n |-> the notifier after, ret |-> the list returned]
ProcessResults(cfg, n, clock, results) ==
    ProcessLoop(cfg, n, clock, Flatten(results), <<>>)

NoNotify == [name |-> "init", findings |-> <<>>, ret |-> <<>>]

\* no call of process_results is in progress
NoLoop == [active |-> FALSE, pending |-> <<>>, to_notify |-> <<>>]

\* no harvest run has begun
HarvestIdle ==
    /\ loop = NoLoop
    /\ payloads = <<>>

\* the notifier's variables while the other components run
NotifierIdle ==
    /\ config = [min_confidence |-> DEFAULT_MIN_CONFIDENCE, min_severity |-> "Medium",
                 dedupe_hours |-> 1]
    /\ sent = EmptyHistory
    /\ sentFile = NoFile
    /\ lastNotify = NoNotify
    /\ HarvestIdle

(***************************** feed records ********************************)
\* What the two fetchers make of the records of their feeds
\* (ImmunefiFetcher.parse_bounty, _detect_chain, get_targets and
\* DefiLlamaFetcher.get_top_overall). A record is a JSON object: a record
\* whose fields are the keys it has. A value the code may find in another
\* type than it expects is tagged, [t |-> its type, v |-> its content]; a
\* string the code looks into is a sequence of characters.
Str(chars) == [t |-> "str", v |-> chars]
NullStr == [t |-> "null", v |-> <<>>]
Num(n) == [t |-> "int", v |-> n]
NullNum == [t |-> "null", v |-> 0]
\* a number written as a string
NumeralStr(n) == [t |-> "str", v |-> n]

\* dict.get(key, default)
Get(d, key, default) == IF key \in DOMAIN d THEN d[key] ELSE default

\* str.startswith(prefix), pattern in str
StartsWith(s, prefix) ==
    Len(s) >= Len(prefix) /\ SubSeq(s, 1, Len(prefix)) = prefix
Contains(s, pattern) ==
    \E k \in 0..(Len(s) - Len(pattern)) : SubSeq(s, k + 1, k + Len(pattern)) = pattern

\* str.lower() of the strings the model keeps whole
LowerStr(s) ==
    CASE s = "Ethereum" -> "ethereum"
      [] s = "Base" -> "base"
      [] s = "Polygon" -> "polygon"
      [] s = "Solana" -> "solana"
      [] s = "Smart Contract" -> "smart contract"
      [] OTHER -> s

ADDRESS_LEN == 42
HexPrefix == <<"0", "x">>
\* an address of full length, filled with one digit
Address42(digit) == HexPrefix \o [k \in 1..(ADDRESS_LEN - 2) |-> digit]

\* ImmunefiFetcher.CHAIN_MAP in the order of the dict: <<keyword, chain>>
CHAIN_MAP ==
    <<<<<<"e", "t", "h", "e", "r", "e", "u", "m">>, "ethereum">>,
      <<<<"e", "t", "h">>, "ethereum">>,
      <<<<"m", "a", "i", "n", "n", "e", "t">>, "ethereum">>,
      <<<<"p", "o", "l", "y", "g", "o", "n">>, "polygon">>,
      <<<<"m", "a", "t", "i", "c">>, "polygon">>,
      <<<<"a", "r", "b", "i", "t", "r", "u", "m">>, "arbitrum">>,
      <<<<"o", "p", "t", "i", "m", "i", "s", "m">>, "optimism">>,
      <<<<"b", "a", "s", "e">>, "base">>,
      <<<<"b", "s", "c">>, "bsc">>,
      <<<<"b", "i", "n", "a", "n", "c", "e">>, "bsc">>,
      <<<<"a", "v", "a", "l", "a", "n", "c", "h", "e">>, "avalanche">>,
      <<<<"f", "a", "n", "t", "o", "m">>, "fantom">>,
      <<<<"g", "n", "o", "s", "i", "s">>, "gnosis">>,
      <<<<"s", "o", "l", "a", "n", "a">>, "solana">>>>
ChainKeys == [k \in 1..Len(CHAIN_MAP) |-> CHAIN_MAP[k][1]]

\* the first keyword of CHAIN_MAP that text contains, 0 if it contains none
FirstKeywordIn(text) ==
    IF \E k \in 1..Len(CHAIN_MAP) : Contains(text, ChainKeys[k])
    THEN CHOOSE k \in 1..Len(CHAIN_MAP) :
            /\ Contains(text, ChainKeys[k])
            /\ \A n \in 1..(k - 1) : ~Contains(text, ChainKeys[n])
    ELSE 0

\* _detect_chain that looks at the chain field alone
DetectChainByFieldOnly(asset) ==
    LET chain == Lower(Get(asset, "chain", Str(<<>>)).v)
    IN IF IndexIn(ChainKeys, chain) # 0
       THEN CHAIN_MAP[IndexIn(ChainKeys, chain)][2]
       ELSE "ethereum"

\* _detect_chain, for an asset whose chain, name and description are strings
DetectChain(asset) ==
    LET chain == Lower(Get(asset, "chain", Str(<<>>)).v)
        name == Lower(Get(asset, "name", <<>>) \o <<" ">>
                        \o Get(asset, "description", <<>>))
    IN IF IndexIn(ChainKeys, chain) # 0
       THEN CHAIN_MAP[IndexIn(ChainKeys, chain)][2]
       ELSE IF FirstKeywordIn(name) # 0
       THEN CHAIN_MAP[FirstKeywordIn(name)][2]
       ELSE "ethereum"

PARSE_FLOOR == 10
CONTRACT_TYPES == {"smart_contract", "smart contract", "contract"}
GithubCom == <<"g", "i", "t", "h", "u", "b", ".", "c", "o", "m">>

\* the loop of parse_bounty over the assets: [raised, contracts]; a target
\* or a chain that is null raises where the code calls a method of it
RECURSIVE ParseAssets(_, _, _)
ParseAssets(assets, project, contracts) ==
    IF assets = <<>> THEN [raised |-> FALSE, contracts |-> contracts]
    ELSE LET asset == Head(assets)
             target == Get(asset, "target", Str(<<>>))
             asset_type == LowerStr(Get(asset, "type", ""))
         IN IF asset_type \notin CONTRACT_TYPES
            THEN ParseAssets(Tail(assets), project, contracts)
            ELSE IF target.t # "str"
            THEN [raised |-> TRUE, contracts |-> <<>>]
            ELSE IF StartsWith(target.v, HexPrefix) /\ Len(target.v) = ADDRESS_LEN
            THEN IF Get(asset, "chain", Str(<<>>)).t # "str"
                 THEN [raised |-> TRUE, contracts |-> <<>>]
                 ELSE ParseAssets(Tail(assets), project,
                         Append(contracts,
                                [address |-> target.v, chain |-> DetectChain(asset),
                                 name |-> Get(asset, "name", project),
                                 is_repo |-> FALSE]))
            ELSE IF Contains(Lower(target.v), GithubCom)
            THEN ParseAssets(Tail(assets), project,
                    Append(contracts,
                           [address |-> target.v, chain |-> "unknown",
                            name |-> Get(asset, "name", project),
                            is_repo |-> TRUE]))
            ELSE ParseAssets(Tail(assets), project, contracts)

\* parse_bounty returning None
Unparsed == [ok |-> FALSE]

\* parse_bounty without the fixed floor on the payout
ParseBountyNoFloor(bounty) ==
    LET project == Get(bounty, "project", "Unknown")
        max_bounty == Get(bounty, "maxBounty", Num(0))
        parsed == ParseAssets(Get(bounty, "assetsInScope", <<>>), project, <<>>)
    IN IF max_bounty.t # "int" THEN Unparsed
       ELSE IF parsed.raised \/ parsed.contracts = <<>> THEN Unparsed
       ELSE [ok |-> TRUE, program |-> project, max_bounty |-> max_bounty.v,
             url |-> Get(bounty, "id", LowerStr(project)),
             contracts |-> parsed.contracts,
             category |-> Get(bounty, "category", "defi")]

\* parse_bounty: every exception inside is caught and gives None
ParseBounty(bounty) ==
    LET project == Get(bounty, "project", "Unknown")
        max_bounty == Get(bounty, "maxBounty", Num(0))
        parsed == ParseAssets(Get(bounty, "assetsInScope", <<>>), project, <<>>)
    IN IF max_bounty.t # "int" THEN Unparsed
       ELSE IF max_bounty.v < PARSE_FLOOR THEN Unparsed
       ELSE IF parsed.raised \/ parsed.contracts = <<>> THEN Unparsed
       ELSE [ok |-> TRUE, program |-> project, max_bounty |-> max_bounty.v,
             url |-> Get(bounty, "id", LowerStr(project)),
             contracts |-> parsed.contracts,
             category |-> Get(bounty, "category", "defi")]

IMMUNEFI_CHAINS == <<"ethereum", "base", "arbitrum", "optimism", "polygon">>

\* the inner loop of get_targets over the contracts of one parsed program
RECURSIVE ContractTargets(_, _, _, _)
ContractTargets(parsed, contracts, chains, acc) ==
    IF contracts = <<>> THEN acc
    ELSE LET contract == Head(contracts)
         IN IF Get(contract, "is_repo", FALSE)
            THEN ContractTargets(parsed, Tail(contracts), chains, acc)
            ELSE IF IndexIn(chains, contract.chain) = 0
            THEN ContractTargets(parsed, Tail(contracts), chains, acc)
            ELSE ContractTargets(parsed, Tail(contracts), chains,
                    Append(acc,
                           [program |-> parsed.program, address |-> contract.address,
                            chain |-> contract.chain, name |-> contract.name,
                            max_bounty |-> parsed.max_bounty,
                            category |-> parsed.category, url |-> parsed.url,
                            assets_in_scope |->
                                [k \in 1..Len(parsed.contracts) |->
                                    parsed.contracts[k].address]]))

\* get_targets on the programs that fetch_programs returned
RECURSIVE GetTargets(_, _, _)
GetTargets(programs, min_bounty, chains) ==
    IF programs = <<>> THEN <<>>
    ELSE LET parsed == ParseBounty(Head(programs))
             rest == GetTargets(Tail(programs), min_bounty, chains)
         IN IF ~parsed.ok THEN rest
            ELSE IF parsed.max_bounty < min_bounty THEN rest
            ELSE ContractTargets(parsed, parsed.contracts, chains, <<>>) \o rest

TVL_FLOOR == 10000
DEFILLAMA_CHAINS == <<"ethereum", "base", "arbitrum", "optimism", "polygon">>
REFRESH_CHAINS == <<"ethereum", "base", "arbitrum", "optimism">>
TOP_LIMIT == 50
REFRESH_LIMIT == 100

\* [c.lower() for c in cs], [c for c in cs if c in chains]
LowerAll(cs) == [k \in 1..Len(cs) |-> LowerStr(cs[k])]
RECURSIVE Matching(_, _)
Matching(cs, chains) ==
    IF cs = <<>> THEN <<>>
    ELSE IF IndexIn(chains, Head(cs)) # 0
         THEN <<Head(cs)>> \o Matching(Tail(cs), chains)
         ELSE Matching(Tail(cs), chains)

\* the address get_top_overall takes from a protocol; <<>> stands for None
ProtocolAddress(p, primary_chain) ==
    IF "address" \notin DOMAIN p THEN NoAddress
    ELSE IF p.address.t = "dict"
         THEN Get(p.address.by, primary_chain, NoAddress)
         ELSE IF p.address.t = "str" /\ StartsWith(p.address.v, HexPrefix)
              THEN p.address.v
              ELSE NoAddress

\* targets.sort(key=lambda t: t.tvl, reverse=True): stable
RECURSIVE InsertByTvl(_, _)
InsertByTvl(sorted, t) ==
    IF sorted = <<>> THEN <<t>>
    ELSE IF Head(sorted).tvl >= t.tvl
         THEN <<Head(sorted)>> \o InsertByTvl(Tail(sorted), t)
         ELSE <<t>> \o sorted
RECURSIVE SortByTvl(_, _)
SortByTvl(ts, acc) ==
    IF ts = <<>> THEN acc ELSE SortByTvl(Tail(ts), InsertByTvl(acc, Head(ts)))

\* the loop of get_top_overall: [raised, targets]. Nothing in it is caught:
\* a tvl that is a string raises at the comparison, chains that are null
\* raise at the iteration
RECURSIVE TopLoop(_, _, _)
TopLoop(protocols, chains_lower, acc) ==
    IF protocols = <<>> THEN [raised |-> FALSE, targets |-> acc]
    ELSE LET p == Head(protocols)
             tvl == Get(p, "tvl", NullNum)
             total_tvl == IF tvl.t = "null" THEN 0 ELSE tvl.v
             cs == Get(p, "chains", [t |-> "list", v |-> <<>>])
             matching_chains == Matching(LowerAll(cs.v), chains_lower)
         IN IF tvl.t = "str"
            THEN [raised |-> TRUE, targets |-> <<>>]
            ELSE IF total_tvl < TVL_FLOOR
            THEN TopLoop(Tail(protocols), chains_lower, acc)
            ELSE IF cs.t # "list"
            THEN [raised |-> TRUE, targets |-> <<>>]
            ELSE IF matching_chains = <<>>
            THEN TopLoop(Tail(protocols), chains_lower, acc)
            ELSE TopLoop(Tail(protocols), chains_lower,
                    Append(acc,
                           [name |-> Get(p, "name", "Unknown"), tvl |-> total_tvl,
                            chain |-> matching_chains[1],
                            category |-> Get(p, "category", ""),
                            address |-> ProtocolAddress(p, matching_chains[1]),
                            url |-> Get(p, "url", "")]))

\* get_top_overall on the protocols that fetch_protocols returned:
\* [raised, ret]
GetTopOverall(protocols, limit, chains) ==
    LET r == TopLoop(protocols, LowerAll(chains), <<>>)
    IN [raised |-> r.raised,
        ret |-> IF r.raised THEN <<>> ELSE Slice(SortByTvl(r.targets, <<>>), limit)]

(***************************** state machine ********************************)
\* what the last call was: its arguments, what it returned, how often it saved
NoResult == [immunefi |-> 0, defillama |-> 0, total_targets |-> 0]
Op(name, i) ==
    [name |-> name, inst |-> i, bounty |-> <<>>, protocols |-> <<>>, min_tvl |-> 0,
     address |-> NoAddress, chain |-> "", session_id |-> NONE,
     added |-> 0, result |-> NoResult, saves |-> 0, repeat |-> FALSE]

\* the machine state aggregator i works on
Machine(i) ==
    [targets |-> targets[i], scanned |-> scanned[i],
     tfile |-> targetsFile, sfile |-> scannedFile, saves |-> 0]

Commit(i, m, op) ==
    /\ targets' = [targets EXCEPT ![i] = m.targets]
    /\ scanned' = [scanned EXCEPT ![i] = m.scanned]
    /\ targetsFile' = m.tfile
    /\ scannedFile' = m.sfile
    /\ lastOp' = [op EXCEPT !.saves = m.saves]

ManualPrograms == {[program |-> NONE, max_bounty |-> 0],
                   [program |-> "Foo", max_bounty |-> 1000]}

\* an aggregator constructed on an empty data directory
Init ==
    /\ now = 0
    /\ steps = 0
    /\ alive = [i \in Procs |-> i = 1]
    /\ targets = [i \in Procs |-> <<>>]
    /\ scanned = [i \in Procs |-> EmptyHistory]
    /\ targetsFile = NoFile
    /\ scannedFile = NoFile
    /\ lastOp = Op("init", 1)
    /\ FetchIdle
    /\ PureIdle
    /\ ToolIdle
    /\ NotifierIdle

\* TargetAggregator(data_dir): a process starts and loads the two files
Construct(i) ==
    /\ steps < MaxSteps
    /\ LET l == LoadState(targetsFile, scannedFile)
       IN /\ targets' = [targets EXCEPT ![i] = l.targets]
          /\ scanned' = [scanned EXCEPT ![i] = l.scanned]
    /\ alive' = [alive EXCEPT ![i] = TRUE]
    /\ steps' = steps + 1
    /\ lastOp' = Op("init", i)
    /\ UNCHANGED <<now, targetsFile, scannedFile>>
    /\ UNCHANGED <<fetchVars, notifyVars, harvestVars, toolVars, pureVars>>

CallRefreshImmunefi(i) ==
    /\ alive[i] /\ steps < MaxSteps
    /\ \E ts \in BountyBatches :
          LET r == RefreshImmunefi(targets[i], ts)
          IN Commit(i, [Machine(i) EXCEPT !.targets = r.targets],
                    [Op("refresh_immunefi", i) EXCEPT !.bounty = ts, !.added = r.added])
    /\ steps' = steps + 1
    /\ UNCHANGED <<now, alive>>
    /\ UNCHANGED <<fetchVars, notifyVars, harvestVars, toolVars, pureVars>>

CallRefreshDefillama(i) ==
    /\ alive[i] /\ steps < MaxSteps
    /\ \E ts \in ProtocolBatches, min_tvl \in MinTvls :
          LET r == RefreshDefillama(targets[i], ts, min_tvl)
          IN Commit(i, [Machine(i) EXCEPT !.targets = r.targets],
                    [Op("refresh_defillama", i) EXCEPT !.protocols = ts,
                                                       !.min_tvl = min_tvl,
                                                       !.added = r.added])
    /\ steps' = steps + 1
    /\ UNCHANGED <<now, alive>>
    /\ UNCHANGED <<fetchVars, notifyVars, harvestVars, toolVars, pureVars>>

CallRefreshAll(i) ==
    /\ alive[i] /\ steps < MaxSteps
    /\ \E bs \in BountyBatches, ps \in ProtocolBatches :
          LET r == RefreshAll(Machine(i), bs, ps)
              again == /\ lastOp.name = "refresh_all" /\ lastOp.inst = i
                       /\ lastOp.bounty = bs /\ lastOp.protocols = ps
          IN Commit(i, r.m,
                    [Op("refresh_all", i) EXCEPT !.bounty = bs, !.protocols = ps,
                                                 !.min_tvl = DEFAULT_MIN_TVL,
                                                 !.result = r.ret, !.repeat = again])
    /\ steps' = steps + 1
    /\ UNCHANGED <<now, alive>>
    /\ UNCHANGED <<fetchVars, notifyVars, harvestVars, toolVars, pureVars>>

CallAddManualTarget(i) ==
    /\ alive[i] /\ steps < MaxSteps
    /\ \E c \in Contracts, p \in ManualPrograms :
          Commit(i, AddManualTarget(Machine(i), c.address, c.chain, "Manual",
                                    p.program, p.max_bounty),
                 [Op("add_manual_target", i) EXCEPT !.address = c.address,
                                                    !.chain = c.chain])
    /\ steps' = steps + 1
    /\ UNCHANGED <<now, alive>>
    /\ UNCHANGED <<fetchVars, notifyVars, harvestVars, toolVars, pureVars>>

\* both datetime.now() calls of mark_scanned fall in the same tick
CallMarkScanned(i) ==
    /\ alive[i] /\ steps < MaxSteps
    /\ \E c \in Contracts, sid \in Sessions :
          Commit(i, MarkScanned(Machine(i), c.address, c.chain, sid, now, now),
                 [Op("mark_scanned", i) EXCEPT !.address = c.address, !.chain = c.chain,
                                               !.session_id = sid])
    /\ steps' = steps + 1
    /\ UNCHANGED <<now, alive>>
    /\ UNCHANGED <<fetchVars, notifyVars, harvestVars, toolVars, pureVars>>

\* get_unscanned reads the pool, the history and the clock and writes nothing;
\* what it returns for limit and days_since_scan is
\* GetUnscanned(targets[i], scanned[i], now, limit, days_since_scan)
CallGetUnscanned(i) ==
    /\ alive[i]
    /\ lastOp' = Op("get_unscanned", i)
    /\ UNCHANGED <<now, steps, alive, targets, scanned, targetsFile, scannedFile>>
    /\ UNCHANGED <<fetchVars, notifyVars, harvestVars, toolVars, pureVars>>

Tick ==
    /\ now < MaxTime
    /\ now' = now + 1
    /\ lastOp' = Op("tick", lastOp.inst)
    /\ UNCHANGED <<steps, alive, targets, scanned, targetsFile, scannedFile>>
    /\ UNCHANGED <<fetchVars, notifyVars, harvestVars, toolVars, pureVars>>

NextOf(P) ==
    \/ \E i \in P : Construct(i)
    \/ \E i \in P : CallRefreshImmunefi(i)
    \/ \E i \in P : CallRefreshDefillama(i)
    \/ \E i \in P : CallRefreshAll(i)
    \/ \E i \in P : CallAddManualTarget(i)
    \/ \E i \in P : CallMarkScanned(i)
    \/ \E i \in P : CallGetUnscanned(i)
    \/ Tick

\* one aggregator at a time on the data directory (a restart constructs it anew)
Next == NextOf({1})
Spec == Init /\ [][Next]_vars

\* two processes constructed on the same, still empty, data directory
InitConc ==
    /\ now = 0
    /\ steps = 0
    /\ alive = [i \in Procs |-> TRUE]
    /\ targets = [i \in Procs |-> <<>>]
    /\ scanned = [i \in Procs |-> EmptyHistory]
    /\ targetsFile = NoFile
    /\ scannedFile = NoFile
    /\ lastOp = Op("init", 2)
    /\ FetchIdle
    /\ PureIdle
    /\ ToolIdle
    /\ NotifierIdle

NextConc == NextOf(Procs)
SpecConc == InitConc /\ [][NextConc]_vars

\* a process constructed on the data directory that an earlier run left
\* behind: that run called refresh_all, which merged both catalogues and saved
WarmMachine ==
    RefreshAll([targets |-> <<>>, scanned |-> EmptyHistory,
                tfile |-> NoFile, sfile |-> NoFile, saves |-> 0],
               BountyCatalogue, ProtocolCatalogue).m

InitWarm ==
    /\ now = 0
    /\ steps = 0
    /\ alive = [i \in Procs |-> i = 1]
    /\ targetsFile = WarmMachine.tfile
    /\ scannedFile = WarmMachine.sfile
    /\ targets = [i \in Procs |->
                    IF i = 1 THEN LoadState(targetsFile, scannedFile).targets ELSE <<>>]
    /\ scanned = [i \in Procs |->
                    IF i = 1 THEN LoadState(targetsFile, scannedFile).scanned
                    ELSE EmptyHistory]
    /\ lastOp = Op("init", 1)
    /\ FetchIdle
    /\ PureIdle
    /\ ToolIdle
    /\ NotifierIdle

SpecWarm == InitWarm /\ [][Next]_vars

\* one process lifetime on the data directory of an earlier run, with a clock
\* that keeps advancing; the clock of the model ends at MaxTime, so the last
\* mark_scanned happens one day before that
CallMarkScannedInTime(i) ==
    /\ now + TicksPerDay <= MaxTime
    /\ CallMarkScanned(i)

NextLive ==
    \/ CallRefreshImmunefi(1)
    \/ CallRefreshDefillama(1)
    \/ CallRefreshAll(1)
    \/ CallAddManualTarget(1)
    \/ CallMarkScannedInTime(1)
    \/ CallGetUnscanned(1)
    \/ Tick

SpecLive == InitWarm /\ [][NextLive]_vars /\ WF_vars(Tick)

\* the three read operations, called with every argument, between the
\* mutating calls of one process
BatchSizes == {0, 1, 10}

ReadGetUnscanned(i) ==
    /\ alive[i]
    /\ \E limit \in Limits, days \in Days :
          Commit(i, GetUnscannedCall(Machine(i), now, limit, days).m,
                 Op("get_unscanned", i))
    /\ UNCHANGED <<now, steps, alive>>
    /\ UNCHANGED <<fetchVars, notifyVars, harvestVars, toolVars, pureVars>>

ReadGetBatchForJules(i) ==
    /\ alive[i]
    /\ \E batch_size \in BatchSizes :
          Commit(i, GetBatchForJules(Machine(i), now, batch_size).m,
                 Op("get_batch_for_jules", i))
    /\ UNCHANGED <<now, steps, alive>>
    /\ UNCHANGED <<fetchVars, notifyVars, harvestVars, toolVars, pureVars>>

ReadGetStats(i) ==
    /\ alive[i]
    /\ Commit(i, GetStats(Machine(i)).m, Op("get_stats", i))
    /\ UNCHANGED <<now, steps, alive>>
    /\ UNCHANGED <<fetchVars, notifyVars, harvestVars, toolVars, pureVars>>

NextRead ==
    \/ CallRefreshAll(1)
    \/ CallAddManualTarget(1)
    \/ CallMarkScanned(1)
    \/ ReadGetUnscanned(1)
    \/ ReadGetBatchForJules(1)
    \/ ReadGetStats(1)
    \/ Tick

SpecRead == InitWarm /\ [][NextRead]_vars

(***************************** the fetchers alone ***************************)
\* no aggregator has been constructed
AggregatorIdle ==
    /\ now = 0
    /\ steps = 0
    /\ alive = [i \in Procs |-> FALSE]
    /\ targets = [i \in Procs |-> <<>>]
    /\ scanned = [i \in Procs |-> EmptyHistory]
    /\ targetsFile = NoFile
    /\ scannedFile = NoFile
    /\ lastOp = Op("init", 1)

\* the record of a fetch: the write is named only when the fetch came to it
FetchRecord(f, outcome, write, r) ==
    [fetcher |-> f, outcome |-> outcome,
     write |-> IF outcome = "ok" THEN write ELSE NONE,
     ret |-> IF r.raised THEN <<>> ELSE r.ret, raised |-> r.raised]

\* the payload of the last fetch that wrote the cache to the end
Remember(f, outcome, payload, write) ==
    IF outcome = "ok" /\ write = "written"
    THEN [lastGood EXCEPT ![f] = [exists |-> TRUE, data |-> payload]]
    ELSE lastGood

CallFetchPrograms ==
    /\ \E outcome \in ProgramOutcomes, payload \in Payloads, write \in Writes :
          LET r == FetchPrograms(cache["immunefi"], outcome, payload, write)
          IN /\ cache' = [cache EXCEPT !["immunefi"] = r.cache]
             /\ lastGood' = Remember("immunefi", outcome, payload, write)
             /\ lastFetch' = FetchRecord("immunefi", outcome, write, r)
    /\ UNCHANGED <<aggVars, notifyVars, harvestVars, toolVars, pureVars>>

CallFetchProtocols ==
    /\ \E outcome \in ProtocolOutcomes, payload \in Payloads, write \in Writes :
          LET r == FetchProtocols(cache["defillama"], outcome, payload, write)
          IN /\ cache' = [cache EXCEPT !["defillama"] = r.cache]
             /\ lastGood' = Remember("defillama", outcome, payload, write)
             /\ lastFetch' = FetchRecord("defillama", outcome, write, r)
    /\ UNCHANGED <<aggVars, notifyVars, harvestVars, toolVars, pureVars>>

InitFetch == AggregatorIdle /\ FetchIdle /\ NotifierIdle /\ PureIdle /\ ToolIdle
NextFetch == CallFetchPrograms \/ CallFetchProtocols
SpecFetch == InitFetch /\ [][NextFetch]_vars

(***************************** the notifier alone ***************************)
SessionResult(sid, findings) == [session_id |-> sid, findings |-> findings]

\* what process_results is given: one session with one or two findings, or
\* two sessions with a finding each
HarvestFindings == {FindingHigh, FindingHighAgain, FindingHighUnsure,
                    FindingCritical, FindingOverflow, FindingElsewhere}
ResultBatches ==
    {<<SessionResult("s1", <<f>>)>> : f \in HarvestFindings}
    \cup {<<SessionResult("s1", <<f, g>>)>> : f \in HarvestFindings, g \in HarvestFindings}
    \cup {<<SessionResult("s1", <<f>>), SessionResult("s2", <<g>>)>> :
            f \in {FindingHigh, FindingCritical},
            g \in {FindingHighAgain, FindingCritical}}

\* _load_sent that starts every run from an empty ledger
LoadSentFresh(file) == EmptyHistory

\* _load_sent
LoadSent(file) == IF file.exists THEN file.data ELSE EmptyHistory

\* FindingsNotifier(config) on an empty state directory
InitNotify ==
    /\ AggregatorIdle
    /\ FetchIdle
    /\ PureIdle
    /\ ToolIdle
    /\ config \in Configs
    /\ sentFile = NoFile
    /\ sent = LoadSent(sentFile)
    /\ lastNotify = NoNotify
    /\ HarvestIdle

\* a new process constructs the notifier with the same configuration
ConstructNotifier ==
    /\ sent' = LoadSent(sentFile)
    /\ lastNotify' = NoNotify
    /\ UNCHANGED <<config, sentFile, aggVars, fetchVars, harvestVars, toolVars, pureVars>>

\* should_notify reads the configuration, self.sent and the clock and writes
\* nothing; what it returns for a finding is ShouldNotify(config, sent, now, finding)
CallShouldNotify ==
    /\ lastNotify' = [NoNotify EXCEPT !.name = "should_notify"]
    /\ UNCHANGED <<config, sent, sentFile, aggVars, fetchVars, harvestVars, toolVars, pureVars>>

\* the clock does not move during one call
CallProcessResults ==
    /\ steps < MaxSteps
    /\ \E results \in ResultBatches :
          LET r == ProcessResults(config, [sent |-> sent, file |-> sentFile], now, results)
          IN /\ sent' = r.n.sent
             /\ sentFile' = r.n.file
             /\ lastNotify' = [name |-> "process_results",
                               findings |-> Flatten(results), ret |-> r.ret]
    /\ steps' = steps + 1
    /\ UNCHANGED <<config, now, alive, targets, scanned, targetsFile, scannedFile,
                   lastOp, fetchVars, harvestVars, toolVars, pureVars>>

NotifierTick ==
    /\ now < MaxTime
    /\ now' = now + 1
    /\ lastNotify' = [NoNotify EXCEPT !.name = "tick"]
    /\ UNCHANGED <<config, sent, sentFile, steps, alive, targets, scanned,
                   targetsFile, scannedFile, lastOp, fetchVars, harvestVars, toolVars, pureVars>>

NextNotify ==
    \/ ConstructNotifier
    \/ CallShouldNotify
    \/ CallProcessResults
    \/ NotifierTick

SpecNotify == InitNotify /\ [][NextNotify]_vars

(***************************** the harvest run, finding by finding **********)
\* harvest.py is run from cron: each run constructs a notifier, which loads
\* the ledger, calls process_results once and hands the returned payloads
\* to the channel. The loop of process_results is taken one finding at a
\* time, so that the ledger between two findings can be looked at and the
\* process can die there. payloads is the history of the payloads the loop
\* has produced: the finding and the tick of its production.

\* the loop body with a suppressed duplicate renewing its mark
ProcessStepRenews(cfg, n, clock, finding, to_notify) ==
    IF ShouldNotify(cfg, n.sent, clock, finding)
    THEN [n |-> MarkSent(n, clock, finding),
          to_notify |-> Append(to_notify, <<finding, FormatNotification(finding)>>),
          passed |-> TRUE]
    ELSE [n |-> IF IsDuplicate(cfg, n.sent, clock, finding)
                THEN MarkSent(n, clock, finding) ELSE n,
          to_notify |-> to_notify, passed |-> FALSE]

\* one pass through the body of the loop of process_results
ProcessStep(cfg, n, clock, finding, to_notify) ==
    IF ShouldNotify(cfg, n.sent, clock, finding)
    THEN [n |-> MarkSent(n, clock, finding),
          to_notify |-> Append(to_notify, <<finding, FormatNotification(finding)>>),
          passed |-> TRUE]
    ELSE [n |-> n, to_notify |-> to_notify, passed |-> FALSE]

\* the findings of one harvest: one session with one or two findings
LoopFindings == {FindingHigh, FindingHighAgain, FindingHighUnsure, FindingCritical}
HarvestBatches ==
    {<<SessionResult("s1", <<f>>)>> : f \in LoopFindings}
    \cup {<<SessionResult("s1", <<f, g>>)>> : f \in LoopFindings, g \in LoopFindings}

\* main of harvest.py up to the call of process_results
HarvestStart ==
    /\ ~loop.active
    /\ steps < MaxSteps
    /\ steps' = steps + 1
    /\ sent' = LoadSent(sentFile)
    /\ \E results \in HarvestBatches :
          loop' = [active |-> TRUE, pending |-> Flatten(results), to_notify |-> <<>>]
    /\ lastNotify' = [NoNotify EXCEPT !.name = "start"]
    /\ UNCHANGED <<config, sentFile, payloads, now, alive, targets, scanned,
                   targetsFile, scannedFile, lastOp, fetchVars, pureVars, toolVars>>

\* the loop body for the next finding
HarvestCheck ==
    /\ loop.active
    /\ loop.pending # <<>>
    /\ LET finding == Head(loop.pending)
           r == ProcessStep(config, [sent |-> sent, file |-> sentFile], now,
                            finding, loop.to_notify)
       IN /\ sent' = r.n.sent
          /\ sentFile' = r.n.file
          /\ loop' = [loop EXCEPT !.pending = Tail(loop.pending),
                                  !.to_notify = r.to_notify]
          /\ payloads' = IF r.passed
                         THEN Append(payloads, [finding |-> finding, at |-> now])
                         ELSE payloads
          /\ lastNotify' = [name |-> "check", findings |-> <<finding>>,
                            ret |-> <<r.passed>>]
    /\ UNCHANGED <<config, aggVars, fetchVars, pureVars, toolVars>>

DeliveryOutcomes == {"delivered", "delivery_failed"}

\* process_results returns and main hands the payloads on; whatever happens
\* to them, nothing after the loop touches the ledger, and the process ends
HarvestReturn ==
    /\ loop.active
    /\ loop.pending = <<>>
    /\ loop' = NoLoop
    /\ \E outcome \in DeliveryOutcomes :
          lastNotify' = [name |-> outcome, findings |-> <<>>, ret |-> loop.to_notify]
    /\ UNCHANGED <<config, sent, sentFile, payloads, aggVars, fetchVars, pureVars, toolVars>>

\* the process dies between two findings: the list to_notify dies with it
HarvestKilled ==
    /\ loop.active
    /\ loop' = NoLoop
    /\ lastNotify' = [NoNotify EXCEPT !.name = "killed"]
    /\ UNCHANGED <<config, sent, sentFile, payloads, aggVars, fetchVars, pureVars, toolVars>>

\* main of notifier.py: a new notifier, should_notify on its own and the
\* message printed; the ledger is read and not written
DirectShouldNotify ==
    /\ ~loop.active
    /\ sent' = LoadSent(sentFile)
    /\ \E finding \in LoopFindings :
          lastNotify' = [name |-> "should_notify", findings |-> <<finding>>,
                         ret |-> <<ShouldNotify(config, LoadSent(sentFile), now, finding)>>]
    /\ UNCHANGED <<config, sentFile, harvestVars, toolVars, aggVars, fetchVars, pureVars>>

HarvestTick ==
    /\ now < MaxTime
    /\ now' = now + 1
    /\ lastNotify' = [NoNotify EXCEPT !.name = "tick"]
    /\ UNCHANGED <<config, sent, sentFile, harvestVars, toolVars, steps, alive, targets,
                   scanned, targetsFile, scannedFile, lastOp, fetchVars, pureVars>>

NextHarvest ==
    \/ HarvestStart
    \/ HarvestCheck
    \/ HarvestReturn
    \/ HarvestKilled
    \/ DirectShouldNotify
    \/ HarvestTick

SpecHarvest == InitNotify /\ [][NextHarvest]_vars

(***************************** the feeds ***********************************)
\* assets of bounty programs
AssetVault ==
    [target |-> Str(Address42("A")), type |-> "smart_contract", chain |-> Str(<<"E", "T", "H">>),
     name |-> <<"V", "a", "u", "l", "t">>, description |-> <<>>]
AssetMatic ==
    [target |-> Str(Address42("b")), type |-> "Smart Contract", chain |-> Str(<<"M", "a", "t", "i", "c">>),
     name |-> <<"P", "o", "o", "l">>, description |-> <<>>]
AssetMainnet ==
    [target |-> Str(Address42("a")), type |-> "contract", chain |-> Str(<<"m", "a", "i", "n", "n", "e", "t">>),
     name |-> <<"P", "o", "o", "l">>, description |-> <<>>]
AssetBinance ==
    [target |-> Str(Address42("c")), type |-> "smart_contract", chain |-> Str(<<"B", "i", "n", "a", "n", "c", "e">>),
     name |-> <<"P", "o", "o", "l">>, description |-> <<>>]
\* a chain string CHAIN_MAP does not list, and nothing in the name
AssetUnlisted ==
    [target |-> Str(Address42("d")), type |-> "smart_contract", chain |-> Str(<<"z", "k">>),
     name |-> <<"P", "o", "o", "l">>, description |-> <<>>]
\* a chain string CHAIN_MAP does not list, and a name that holds a keyword
AssetUnlistedNamed ==
    [target |-> Str(Address42("d")), type |-> "smart_contract", chain |-> Str(<<"z", "k">>),
     name |-> <<"B", "a", "s", "e", " ", "P", "o", "o", "l">>, description |-> <<>>]
\* no chain field, and a description that holds a keyword
AssetNoChain ==
    [target |-> Str(Address42("e")), type |-> "smart_contract",
     name |-> <<"V", "a", "u", "l", "t">>, description |-> <<"o", "n", " ", "A", "r", "b", "i", "t", "r", "u", "m">>]
AssetRepo ==
    [target |-> Str(<<"h", "t", "t", "p", "s", ":", "/", "/", "G", "i", "t", "H", "u", "b", ".", "c", "o", "m", "/", "x", "/", "y">>), type |-> "smart_contract", chain |-> Str(<<>>),
     name |-> <<"C", "o", "d", "e">>, description |-> <<>>]
AssetShort ==
    [target |-> Str(<<"0", "x", "1", "2">>), type |-> "smart_contract",
     chain |-> Str(<<"E", "T", "H">>), name |-> <<"P", "o", "o", "l">>, description |-> <<>>]
AssetNullTarget ==
    [target |-> NullStr, type |-> "smart_contract", chain |-> Str(<<"E", "T", "H">>),
     name |-> <<"P", "o", "o", "l">>, description |-> <<>>]
AssetWeb ==
    [target |-> NullStr, type |-> "websites_and_applications",
     name |-> <<"C", "o", "d", "e">>, description |-> <<>>]
Assets == {AssetVault, AssetMatic, AssetMainnet, AssetBinance, AssetUnlisted,
           AssetUnlistedNamed, AssetNoChain, AssetRepo, AssetShort}

\* bounty programs as the page lists them (maxBounty in thousands of USD)
ProgFoo ==
    [project |-> "Foo", maxBounty |-> Num(100), id |-> "foo",
     assetsInScope |-> <<AssetVault, AssetRepo, AssetWeb>>]
ProgSmall ==
    [project |-> "Small", maxBounty |-> Num(7), assetsInScope |-> <<AssetMatic>>]
ProgMid ==
    [project |-> "Mid", maxBounty |-> Num(25), category |-> "bridge",
     assetsInScope |-> <<AssetMainnet, AssetBinance>>]
ProgNoBounty == [project |-> "Free", assetsInScope |-> <<AssetVault>>]
ProgStrBounty ==
    [project |-> "Text", maxBounty |-> NumeralStr(100), assetsInScope |-> <<AssetVault>>]
ProgNullTarget ==
    [project |-> "Null", maxBounty |-> Num(100),
     assetsInScope |-> <<AssetMatic, AssetNullTarget>>]
ProgRepoOnly ==
    [project |-> "Repo", maxBounty |-> Num(50), assetsInScope |-> <<AssetRepo>>]
ProgShort ==
    [project |-> "Short", maxBounty |-> Num(50), assetsInScope |-> <<AssetShort>>]
Programs == {ProgFoo, ProgSmall, ProgMid, ProgNoBounty, ProgStrBounty,
             ProgNullTarget, ProgRepoOnly, ProgShort}
\* what fetch_programs returns: up to two programs
ProgramFeeds ==
    {<<>>} \cup {<<a>> : a \in Programs} \cup {<<a, b>> : a \in Programs, b \in Programs}
MinBounties == {0, 5, PARSE_FLOOR, 25, 50}

\* protocols as the API lists them (tvl in thousands of USD)
ChainList(cs) == [t |-> "list", v |-> cs]
RawAave ==
    [name |-> "Aave", tvl |-> Num(50000), chains |-> ChainList(<<"Polygon", "Ethereum">>),
     address |-> Str(Address42("a")), category |-> "Lending", url |-> "aave.com"]
RawShortAddress ==
    [name |-> "Shorty", tvl |-> Num(50000), chains |-> ChainList(<<"Base">>),
     address |-> Str(<<"0", "x", "1", "2">>), category |-> "Dexes", url |-> "short.io"]
RawDictAddress ==
    [name |-> "Dicty", tvl |-> Num(10000), chains |-> ChainList(<<"Ethereum">>),
     address |-> [t |-> "dict", v |-> <<>>, by |-> [ethereum |-> <<"n", "/", "a">>]],
     category |-> "Yield", url |-> "dicty.io"]
RawNoAddress ==
    [name |-> "Uni", tvl |-> Num(50000), chains |-> ChainList(<<"Base">>),
     address |-> NullStr, category |-> "Dexes", url |-> "uni.org"]
RawSmallTvl ==
    [name |-> "Tiny", tvl |-> Num(1000), chains |-> ChainList(<<"Ethereum">>),
     address |-> Str(Address42("b"))]
RawSolana ==
    [name |-> "Sol", tvl |-> Num(50000), chains |-> ChainList(<<"Solana">>),
     address |-> Str(Address42("c"))]
RawStrTvl ==
    [name |-> "Texty", tvl |-> NumeralStr(50000), chains |-> ChainList(<<"Ethereum">>),
     address |-> Str(Address42("b"))]
RawNullChains ==
    [name |-> "Nully", tvl |-> Num(50000), chains |-> [t |-> "null", v |-> <<>>],
     address |-> Str(Address42("b"))]
RawProtocols == {RawAave, RawShortAddress, RawDictAddress, RawNoAddress,
                 RawSmallTvl, RawSolana, RawStrTvl, RawNullChains}
ProtocolFeeds ==
    {<<>>} \cup {<<a>> : a \in RawProtocols}
           \cup {<<a, b>> : a \in RawProtocols, b \in RawProtocols}

\* get_targets called on its own: no state of the fetcher changes
CallGetTargets ==
    /\ \E programs \in ProgramFeeds, min_bounty \in MinBounties :
          lastCall' = [name |-> "get_targets", programs |-> programs,
                       min_bounty |-> min_bounty,
                       ret |-> GetTargets(programs, min_bounty, IMMUNEFI_CHAINS)]
    /\ UNCHANGED <<aggVars, fetchVars, notifyVars, harvestVars, toolVars>>

CallGetTopOverall ==
    /\ \E protocols \in ProtocolFeeds :
          LET r == GetTopOverall(protocols, TOP_LIMIT, DEFILLAMA_CHAINS)
          IN lastCall' = [name |-> "get_top_overall", protocols |-> protocols,
                          raised |-> r.raised, ret |-> r.ret]
    /\ UNCHANGED <<aggVars, fetchVars, notifyVars, harvestVars, toolVars>>

CallDetectChain ==
    /\ \E asset \in Assets :
          lastCall' = [name |-> "_detect_chain", asset |-> asset,
                       ret |-> DetectChain(asset)]
    /\ UNCHANGED <<aggVars, fetchVars, notifyVars, harvestVars, toolVars>>

\* the feeds of the refreshes: one record, or two of which one is malformed
RefreshProgramFeeds ==
    {<<a>> : a \in Programs} \cup {<<ProgNullTarget, ProgFoo>>, <<ProgFoo, ProgMid>>}
RefreshProtocolFeeds ==
    {<<a>> : a \in RawProtocols} \cup {<<RawDictAddress, RawAave>>, <<RawAave, RawNullChains>>}
RefreshMinBounties == {0, 25}

\* refresh_immunefi(min_bounty) with the feed the fetcher finds
FeedRefreshImmunefi ==
    /\ alive[1] /\ steps < MaxSteps
    /\ \E programs \in RefreshProgramFeeds, min_bounty \in RefreshMinBounties :
          LET ts == GetTargets(programs, min_bounty, IMMUNEFI_CHAINS)
              r == RefreshImmunefi(targets[1], ts)
          IN /\ Commit(1, [Machine(1) EXCEPT !.targets = r.targets],
                       [Op("refresh_immunefi", 1) EXCEPT !.added = r.added])
             /\ lastCall' = [name |-> "get_targets", programs |-> programs,
                             min_bounty |-> min_bounty, ret |-> ts]
    /\ steps' = steps + 1
    /\ UNCHANGED <<now, alive, fetchVars, notifyVars, harvestVars, toolVars>>

\* refresh_defillama() with the feed the fetcher finds; an exception of
\* get_top_overall leaves the call before the pool is touched
FeedRefreshDefillama ==
    /\ alive[1] /\ steps < MaxSteps
    /\ \E protocols \in RefreshProtocolFeeds :
          LET g == GetTopOverall(protocols, REFRESH_LIMIT, REFRESH_CHAINS)
              r == RefreshDefillama(targets[1], g.ret, DEFAULT_MIN_TVL)
          IN /\ Commit(1, [Machine(1) EXCEPT !.targets = r.targets],
                       [Op("refresh_defillama", 1) EXCEPT !.min_tvl = DEFAULT_MIN_TVL,
                                                          !.added = r.added])
             /\ lastCall' = [name |-> "get_top_overall", protocols |-> protocols,
                             raised |-> g.raised, ret |-> g.ret]
    /\ steps' = steps + 1
    /\ UNCHANGED <<now, alive, fetchVars, notifyVars, harvestVars, toolVars>>

\* the fetchers' functions on their own
NextFeed ==
    \/ CallGetTargets
    \/ CallGetTopOverall
    \/ CallDetectChain

SpecFeed == Init /\ [][NextFeed]_vars

\* the two refreshes of an aggregator on the feeds
NextFeedRefresh ==
    \/ FeedRefreshImmunefi
    \/ FeedRefreshDefillama

SpecFeedRefresh == Init /\ [][NextFeedRefresh]_vars

(***************************** writes that fail ******************************)
\* _save_state opens and dumps the pool file and then the history file, and
\* catches nothing. A write that fails at open leaves the file as it was; one
\* that fails in json.dump leaves it cut short.
DiskWrites == {"written", "targets_open_fails", "targets_dump_fails",
               "scanned_open_fails", "scanned_dump_fails"}
CutShort == [exists |-> TRUE, data |-> <<>>, cut |-> TRUE]

\* _save_state that catches the error of a failing write
SaveStateQuietly(m, write) ==
    [m |-> IF write = "written" THEN SaveState(m) ELSE m, raised |-> FALSE]

\* _save_state when its writes end as write says: [m, raised]
SaveStateWith(m, write) ==
    LET pool == [exists |-> TRUE, data |-> DictValues(m.targets)]
    IN CASE write = "written" -> [m |-> SaveState(m), raised |-> FALSE]
         [] write = "targets_open_fails" -> [m |-> m, raised |-> TRUE]
         [] write = "targets_dump_fails" ->
                [m |-> [m EXCEPT !.tfile = CutShort], raised |-> TRUE]
         [] write = "scanned_open_fails" ->
                [m |-> [m EXCEPT !.tfile = pool], raised |-> TRUE]
         [] write = "scanned_dump_fails" ->
                [m |-> [m EXCEPT !.tfile = pool, !.sfile = CutShort], raised |-> TRUE]

\* an operation that ends with _save_state: r is what it gives when the save
\* succeeds, m the state it started from, so r with the files of m is the
\* state in which it calls _save_state
EndsWithSave(m, r, write) ==
    SaveStateWith([r EXCEPT !.tfile = m.tfile, !.sfile = m.sfile, !.saves = m.saves],
                  write)

DiskCommit(i, name, res, write) ==
    /\ Commit(i, res.m, Op(name, i))
    /\ lastCall' = [name |-> name, write |-> write, raised |-> res.raised]
    /\ steps' = steps + 1
    /\ UNCHANGED <<now, alive, fetchVars, notifyVars, harvestVars, toolVars>>

DiskRefreshAll ==
    /\ alive[1] /\ steps < MaxSteps
    /\ \E bs \in BountyBatches, ps \in ProtocolBatches, write \in DiskWrites :
          DiskCommit(1, "refresh_all",
                     EndsWithSave(Machine(1), RefreshAll(Machine(1), bs, ps).m, write),
                     write)

DiskAddManualTarget ==
    /\ alive[1] /\ steps < MaxSteps
    /\ \E c \in Contracts, p \in ManualPrograms, write \in DiskWrites :
          DiskCommit(1, "add_manual_target",
                     EndsWithSave(Machine(1),
                                  AddManualTarget(Machine(1), c.address, c.chain,
                                                  "Manual", p.program, p.max_bounty),
                                  write),
                     write)

DiskMarkScanned ==
    /\ alive[1] /\ steps < MaxSteps
    /\ \E c \in Contracts, sid \in Sessions, write \in DiskWrites :
          DiskCommit(1, "mark_scanned",
                     EndsWithSave(Machine(1),
                                  MarkScanned(Machine(1), c.address, c.chain, sid,
                                              now, now),
                                  write),
                     write)

NextDisk ==
    \/ DiskRefreshAll
    \/ DiskAddManualTarget
    \/ DiskMarkScanned

SpecDisk == Init /\ [][NextDisk]_vars

(***************************** the score alone *******************************)
\* the arguments _calculate_priority is called with, in thousands of USD
PriorityBounties == {-1, 0, 7, 10, 25, 50, 100, 1000, 10000, 1000000, 1000000000}
PriorityTvls == {-1, 0, 1000, 10000, 50000, 1000000, 100000000, 1000000000}
PriorityChains == {"ethereum", "base", "arbitrum", "optimism", "polygon", "bsc",
                   "avalanche", "Ethereum"}

CallCalculatePriority ==
    /\ \E b \in PriorityBounties, t \in PriorityTvls, h \in BOOLEAN, c \in PriorityChains :
          lastCall' = [name |-> "_calculate_priority", max_bounty |-> b, tvl |-> t,
                       has_bounty |-> h, chain |-> c,
                       ret |-> CalculatePriority(b, t, h, c)]
    /\ UNCHANGED <<aggVars, fetchVars, notifyVars, harvestVars, toolVars>>

SpecPriority == Init /\ [][CallCalculatePriority]_vars

(***************************** properties ***********************************)
\* the identity of a target record: (chain, lowercase(address))
IdentityOf(t) == <<t.chain, Lower(t.address)>>
RefreshOps == {"refresh_immunefi", "refresh_defillama", "refresh_all"}
MutatingOps == RefreshOps \cup {"add_manual_target", "mark_scanned"}
Range(s) == {s[j] : j \in 1..Len(s)}

\* the keys of the records a refresh merged: every bounty record, and every
\* TVL record that has an address and reaches min_tvl
TouchedIdentities(op) ==
    {IdentityOf(op.bounty[j]) : j \in 1..Len(op.bounty)}
    \cup {IdentityOf(op.protocols[j]) :
            j \in {n \in 1..Len(op.protocols) :
                     /\ op.protocols[n].address # NoAddress
                     /\ op.protocols[n].tvl >= op.min_tvl}}

\* C1: after any sequence of refresh, add_manual_target and mark_scanned calls
\* the pool (and the pool file) holds exactly one target for each identity
\* (chain, lowercase(address)) it was given: never two targets of one identity,
\* and one for every record of the last refresh or manual addition; records
\* that differ in letter case only are merged into one target.
C1_OneTargetPerIdentity ==
    /\ \A i \in Procs : \A a, b \in 1..Len(targets[i]) :
          IdentityOf(targets[i][a].t) = IdentityOf(targets[i][b].t) => a = b
    /\ \A a, b \in 1..Len(targetsFile.data) :
          IdentityOf(targetsFile.data[a]) = IdentityOf(targetsFile.data[b]) => a = b
    /\ lastOp.name \in RefreshOps =>
          \A id \in TouchedIdentities(lastOp) :
             \E j \in 1..Len(targets[lastOp.inst]) :
                IdentityOf(targets[lastOp.inst][j].t) = id
    /\ lastOp.name = "add_manual_target" =>
          \E j \in 1..Len(targets[lastOp.inst]) :
             IdentityOf(targets[lastOp.inst][j].t) = <<lastOp.chain, Lower(lastOp.address)>>

\* C1 witness: a refresh_all that was given the same contract in upper case by
\* the bounty feed and in lower case by the TVL feed left one target.
C1_Witness ==
    /\ lastOp.name = "refresh_all"
    /\ BountyFoo \in Range(lastOp.bounty)
    /\ ProtoAave \in Range(lastOp.protocols)
    /\ Len(targets[lastOp.inst]) = 1
    /\ targets[lastOp.inst][1].t.tvl = ProtoAave.tvl

ScoreIsFresh(t) ==
    t.priority_score = CalculatePriority(t.max_bounty, t.tvl, Truthy(t.program), t.chain)

\* C2: after a refresh call returns, every target it touched has a stored
\* priority_score equal to the scoring function of its current max_bounty,
\* tvl, has-program flag and chain.
C2_ScoreFreshAfterRefresh ==
    lastOp.name \in RefreshOps =>
        \A j \in 1..Len(targets[lastOp.inst]) :
            IdentityOf(targets[lastOp.inst][j].t) \in TouchedIdentities(lastOp)
                => ScoreIsFresh(targets[lastOp.inst][j].t)


\* the target of pool d with identity id (used where there is one)
TargetAt(d, id) == d[CHOOSE j \in 1..Len(d) : IdentityOf(d[j].t) = id].t
Identities(d) == {IdentityOf(d[j].t) : j \in 1..Len(d)}

\* C3: with the same records returned by the two fetchers, a second refresh_all
\* in a row leaves the set of pool keys and every target's priority_score as
\* the first one left them.
C3_RefreshAllIdempotent ==
    [][(lastOp'.name = "refresh_all" /\ lastOp'.repeat) =>
          LET i == lastOp'.inst
          IN /\ Identities(targets'[i]) = Identities(targets[i])
             /\ Len(targets'[i]) = Len(targets[i])
             /\ \A id \in Identities(targets[i]) :
                   TargetAt(targets'[i], id).priority_score
                       = TargetAt(targets[i], id).priority_score]_vars

\* C3 witness: refresh_all ran twice in a row on records of both feeds, and
\* the pool holds a target that both feeds name.
C3_Witness ==
    /\ lastOp.name = "refresh_all"
    /\ lastOp.repeat
    /\ lastOp.bounty = BountyCatalogue
    /\ lastOp.protocols = ProtocolCatalogue
    /\ \E j \in 1..Len(targets[lastOp.inst]) :
          /\ targets[lastOp.inst][j].t.tvl > 0
          /\ targets[lastOp.inst][j].t.max_bounty > 0

\* the records of a batch that fall on identity id
BountyOn(op, id) == {j \in 1..Len(op.bounty) : IdentityOf(op.bounty[j]) = id}
ProtocolsOn(op, id) ==
    {j \in 1..Len(op.protocols) :
        /\ op.protocols[j].address # NoAddress
        /\ op.protocols[j].tvl >= op.min_tvl
        /\ IdentityOf(op.protocols[j]) = id}
SetMax(S) == CHOOSE x \in S : \A y \in S : y <= x

\* C4: a refresh that merges records onto a key already in the pool leaves
\* max_bounty at the maximum of its old value and the bounty-feed records'
\* values (so it never decreases), program at the program of the last
\* bounty-feed record, and tvl at the tvl of the last TVL-feed record; a key
\* no record falls on keeps the three fields.
C4_MergeFields ==
    [][lastOp'.name \in RefreshOps =>
          LET i == lastOp'.inst
              op == lastOp'
          IN \A id \in Identities(targets[i]) :
                LET old == TargetAt(targets[i], id)
                    new == TargetAt(targets'[i], id)
                    bs == BountyOn(op, id)
                    ps == ProtocolsOn(op, id)
                IN /\ id \in Identities(targets'[i])
                   /\ new.max_bounty >= old.max_bounty
                   /\ new.max_bounty =
                        SetMax({old.max_bounty} \cup {op.bounty[j].max_bounty : j \in bs})
                   /\ new.program = IF bs = {} THEN old.program
                                    ELSE op.bounty[SetMax(bs)].program
                   /\ new.tvl = IF ps = {} THEN old.tvl
                                ELSE op.protocols[SetMax(ps)].tvl]_vars

\* C4 witness: a bounty-feed refresh merged a smaller bounty onto a manual
\* target that carried a larger one.
C4_Witness ==
    /\ lastOp.name = "refresh_immunefi"
    /\ lastOp.added = 0
    /\ \E j \in 1..Len(targets[lastOp.inst]) :
          /\ BountyOn(lastOp, IdentityOf(targets[lastOp.inst][j].t)) # {}
          /\ targets[lastOp.inst][j].t.max_bounty > BountyFoo.max_bounty
          /\ targets[lastOp.inst][j].t.source = "manual"


\* the tick at which key was last marked scanned, by the history of aggregator i
MarkedAt(i, key) == FromIsoFormat(scanned[i][key].timestamp)

\* C5: in the result of get_unscanned(limit, days_since_scan) a target marked
\* scanned at T is absent while the clock is earlier than T + days_since_scan,
\* and it is eligible (returned, the limit allowing) once the clock is later
\* than T + days_since_scan; a target without a history entry is always
\* eligible.
C5_RecencyExclusion ==
    lastOp.name = "get_unscanned" =>
        LET i == lastOp.inst
        IN \A limit \in Limits, days \in Days, j \in 1..Len(targets[i]) :
              LET out == GetUnscanned(targets[i], scanned[i], now, limit, days)
                  e == targets[i][j]
                  id == IdentityOf(e.t)
                  roomy == limit >= Len(targets[i])
              IN IF id \in DOMAIN scanned[i]
                 THEN /\ now < MarkedAt(i, id) + days * TicksPerDay
                            => e.t \notin Range(out)
                      /\ (now > MarkedAt(i, id) + days * TicksPerDay /\ roomy)
                            => e.t \in Range(out)
                 ELSE roomy => e.t \in Range(out)

\* C5 witness: get_unscanned is called when a target of the pool was marked
\* scanned more than a day ago, so that it is eligible again for one day and
\* was excluded before.
C5_Witness ==
    /\ lastOp.name = "get_unscanned"
    /\ \E j \in 1..Len(targets[lastOp.inst]) :
          LET id == IdentityOf(targets[lastOp.inst][j].t)
          IN /\ id \in DOMAIN scanned[lastOp.inst]
             /\ now > MarkedAt(lastOp.inst, id) + TicksPerDay

\* eligibility as get_unscanned's contract states it
Eligible(i, t, days) ==
    \/ IdentityOf(t) \notin DOMAIN scanned[i]
    \/ ~(MarkedAt(i, IdentityOf(t)) > now - days * TicksPerDay)

\* C6: for every limit >= 0 get_unscanned returns at most limit targets, in
\* non-increasing order of priority_score, all of them eligible targets of the
\* pool, and no eligible target left out has a strictly higher score than a
\* returned one.
C6_BestFirstWithinLimit ==
    lastOp.name = "get_unscanned" =>
        LET i == lastOp.inst
        IN \A limit \in {l \in Limits : l >= 0}, days \in Days :
              LET out == GetUnscanned(targets[i], scanned[i], now, limit, days)
                  pool == Range(DictValues(targets[i]))
              IN /\ Len(out) <= limit
                 /\ \A a \in 1..Len(out) - 1 :
                       out[a].priority_score >= out[a + 1].priority_score
                 /\ \A a \in 1..Len(out) : out[a] \in pool /\ Eligible(i, out[a], days)
                 /\ \A a, b \in 1..Len(out) : out[a] = out[b] => a = b
                 /\ \A t \in pool :
                       (Eligible(i, t, days) /\ t \notin Range(out)) =>
                           /\ Len(out) = limit
                           /\ \A a \in 1..Len(out) : t.priority_score <= out[a].priority_score

\* C6 witness: get_unscanned is called on a pool with two eligible targets of
\* different scores, so that limit 1 has to choose.
C6_Witness ==
    /\ lastOp.name = "get_unscanned"
    /\ \E a, b \in 1..Len(targets[lastOp.inst]) :
          LET ta == targets[lastOp.inst][a].t
              tb == targets[lastOp.inst][b].t
          IN /\ ta.priority_score < tb.priority_score
             /\ a < b
             /\ Eligible(lastOp.inst, ta, 1)
             /\ Eligible(lastOp.inst, tb, 1)


\* what _save_state leaves on disk for the memory of aggregator i (next state)
DiskHoldsMemory(i) ==
    /\ targetsFile' = [exists |-> TRUE, data |-> DictValues(targets'[i])]
    /\ scannedFile' = [exists |-> TRUE, data |-> scanned'[i]]

\* C7: mark_scanned(address, chain, session_id) writes the history entry at
\* (chain, lowercase(address)) with the current time and the session_id and
\* leaves every other entry; it sets last_scanned on the pool target of that
\* key if there is one and changes nothing else in the pool, adds no target,
\* and has written pool and history to disk when it returns.
C7_MarkScanned ==
    [][lastOp'.name = "mark_scanned" =>
          LET i == lastOp'.inst
              id == <<lastOp'.chain, Lower(lastOp'.address)>>
          IN /\ DOMAIN scanned'[i] = DOMAIN scanned[i] \cup {id}
             /\ scanned'[i][id] = [timestamp |-> IsoFormat(now),
                                   session_id |-> lastOp'.session_id]
             /\ \A k \in DOMAIN scanned[i] \ {id} : scanned'[i][k] = scanned[i][k]
             /\ Len(targets'[i]) = Len(targets[i])
             /\ \A j \in 1..Len(targets[i]) :
                   IF IdentityOf(targets[i][j].t) = id
                   THEN targets'[i][j] =
                            [targets[i][j] EXCEPT !.t.last_scanned = IsoFormat(now)]
                   ELSE targets'[i][j] = targets[i][j]
             /\ lastOp'.saves = 1
             /\ DiskHoldsMemory(i)]_vars

\* C7 witness: mark_scanned was called, in upper case, for a contract the pool
\* holds in lower case, and the target carries the time of the call.
C7_Witness ==
    /\ lastOp.name = "mark_scanned"
    /\ lastOp.address = AddrUpper
    /\ \E j \in 1..Len(targets[lastOp.inst]) :
          /\ targets[lastOp.inst][j].t.address = AddrLower
          /\ targets[lastOp.inst][j].t.chain = lastOp.chain
          /\ targets[lastOp.inst][j].t.last_scanned = IsoFormat(now)
    /\ now > 0

\* C8: after each mutating operation returns (refresh_immunefi,
\* refresh_defillama, refresh_all, add_manual_target, mark_scanned) the pool
\* and the history on disk equal the pool and the history in memory: an
\* aggregator constructed right then loads the memory of the one that returned.
C8_DiskEqualsMemoryAfterMutation ==
    lastOp.name \in MutatingOps =>
        LoadState(targetsFile, scannedFile) =
            [targets |-> targets[lastOp.inst], scanned |-> scanned[lastOp.inst]]

\* C9: refresh_all merges the bounty feed first and the TVL feed second, saves
\* pool and history once, after both, and returns the number of keys each feed
\* added together with the pool size after both.
C9_RefreshAll ==
    [][lastOp'.name = "refresh_all" =>
          LET i == lastOp'.inst
              op == lastOp'
              before == Identities(targets[i])
              fromBounty == {IdentityOf(op.bounty[j]) : j \in 1..Len(op.bounty)}
              fromTvl == {id \in Identities(targets'[i]) : ProtocolsOn(op, id) # {}}
          IN /\ op.result.immunefi = Cardinality(fromBounty \ before)
             /\ op.result.defillama = Cardinality(fromTvl \ (before \cup fromBounty))
             /\ op.result.total_targets = Len(targets'[i])
             /\ Identities(targets'[i]) = before \cup fromBounty \cup fromTvl
             /\ \A id \in fromBounty \ before :
                   TargetAt(targets'[i], id).source = "immunefi"
             /\ \A id \in fromTvl \ before :
                   TargetAt(targets'[i], id).tvl > 0
             /\ op.saves = 1
             /\ DiskHoldsMemory(i)
             /\ scanned'[i] = scanned[i]]_vars

\* C9 witness: a refresh_all in which the bounty feed added a target and the
\* TVL feed then enriched that same target, and which is on disk.
C9_Witness ==
    /\ lastOp.name = "refresh_all"
    /\ lastOp.result.immunefi = 1
    /\ lastOp.result.defillama = 0
    /\ lastOp.result.total_targets = 1
    /\ targets[lastOp.inst][1].t.source = "immunefi"
    /\ targets[lastOp.inst][1].t.tvl = ProtoAave.tvl
    /\ targetsFile.data = <<targets[lastOp.inst][1].t>>

\* C10: when two aggregators work on the same data directory no update is
\* lost: a target or a history entry that a mutating call has put on disk is
\* still on disk after every later call of either aggregator.
C10_NoLostUpdate ==
    [][/\ DOMAIN scannedFile.data \subseteq DOMAIN scannedFile'.data
       /\ {IdentityOf(targetsFile.data[j]) : j \in 1..Len(targetsFile.data)}
            \subseteq {IdentityOf(targetsFile'.data[j]) : j \in 1..Len(targetsFile'.data)}]_vars

\* the keys of a pool
Keys(d) == {d[j].k : j \in 1..Len(d)}
SingleFeedOps == {"refresh_immunefi", "refresh_defillama"}

\* C11: the number refresh_immunefi and refresh_defillama return is the number
\* of keys that were absent from the pool before the call and present after
\* it, which is the growth of the pool; a key the batch repeats counts once.
C11_AddedIsGrowth ==
    [][lastOp'.name \in SingleFeedOps =>
          LET i == lastOp'.inst
          IN /\ lastOp'.added = Cardinality(Keys(targets'[i]) \ Keys(targets[i]))
             /\ lastOp'.added = Len(targets'[i]) - Len(targets[i])]_vars

\* C11 witness: refresh_defillama merged two records of one contract (one in
\* lower case, one in upper case) into an empty pool and returned 1.
C11_Witness ==
    /\ lastOp.name = "refresh_defillama"
    /\ lastOp.protocols = <<ProtoAave, ProtoAaveDip>>
    /\ lastOp.min_tvl = DEFAULT_MIN_TVL
    /\ lastOp.added = 1
    /\ Len(targets[lastOp.inst]) = 1

\* contract c is a target of the pool
Tracked(c) == DictHas(targets[1], TargetKey(c.chain, c.address))

\* get_unscanned(limit = pool size, days_since_scan = 1) returns contract c
ReturnedForOneDay(c) ==
    \E t \in Range(GetUnscanned(targets[1], scanned[1], now, Len(targets[1]), 1)) :
        IdentityOf(t) = TargetKey(c.chain, c.address)

\* C12: every tracked target is eligible again and again: with the clock
\* advancing and no further mark_scanned for its key, a target of the pool is
\* eventually returned by get_unscanned (limit at least the pool size);
\* no sequence of operations leaves it excluded for ever.
C12_EventuallyEligibleAgain ==
    \A c \in Contracts : Tracked(c) ~> ReturnedForOneDay(c)

\* C12 witness: a target that mark_scanned excluded for a day is returned by
\* get_unscanned a day later, its history entry still in place.
C12_Witness ==
    \E c \in Contracts :
        LET key == TargetKey(c.chain, c.address)
        IN /\ Tracked(c)
           /\ key \in DOMAIN scanned[1]
           /\ DictGet(targets[1], key).last_scanned # NoTime
           /\ MarkedAt(1, key) > (now - 1) - TicksPerDay
           /\ now >= MarkedAt(1, key) + TicksPerDay
           /\ ReturnedForOneDay(c)

ReadOps == {"get_unscanned", "get_batch_for_jules", "get_stats"}

\* C13: get_unscanned, get_batch_for_jules and get_stats leave the pool, the
\* scan history and both files on disk as they were, for every argument and
\* every state.
C13_ReadsChangeNothing ==
    [][lastOp'.name \in ReadOps =>
          UNCHANGED <<targets, scanned, targetsFile, scannedFile>>]_vars

\* C13 witness: get_batch_for_jules has run on a pool holding a target without
\* program and bounty (for which it reports defaults) and a scanned target.
C13_Witness ==
    /\ lastOp.name = "get_batch_for_jules"
    /\ \E j \in 1..Len(targets[1]) :
          /\ ~Truthy(targets[1][j].t.program)
          /\ targets[1][j].t.max_bounty = 0
          /\ JulesEntry(targets[1][j].t).program = "Unknown"
    /\ DOMAIN scanned[1] # {}
    /\ targetsFile.data = DictValues(targets[1])

FileKeys(f) == {IdentityOf(f.data[j]) : j \in 1..Len(f.data)}

\* C14: the keys of the pool and the keys of the history only grow: no
\* refresh, add_manual_target or mark_scanned call removes a key from the pool
\* or the history in memory, a load holds every key of the files it read, and
\* no save removes a key from the files, also when a target is in no feed.
C14_KeysOnlyGrow ==
    [][/\ lastOp'.name # "init" =>
             \A i \in Procs : /\ Keys(targets[i]) \subseteq Keys(targets'[i])
                               /\ DOMAIN scanned[i] \subseteq DOMAIN scanned'[i]
       /\ lastOp'.name = "init" =>
             /\ FileKeys(targetsFile) \subseteq Keys(targets'[lastOp'.inst])
             /\ DOMAIN scannedFile.data \subseteq DOMAIN scanned'[lastOp'.inst]
       /\ FileKeys(targetsFile) \subseteq FileKeys(targetsFile')
       /\ DOMAIN scannedFile.data \subseteq DOMAIN scannedFile'.data]_vars

\* C14 witness: a refresh_all to which both feeds returned nothing has left
\* the two targets of the earlier run in the pool and on disk.
C14_Witness ==
    /\ lastOp.name = "refresh_all"
    /\ lastOp.bounty = <<>>
    /\ lastOp.protocols = <<>>
    /\ Len(targets[1]) = 2
    /\ Len(targetsFile.data) = 2
    /\ lastOp.saves = 1

\* C15: last_scanned of a pool target is changed by mark_scanned only: no
\* refresh and no add_manual_target call changes the last_scanned of a target
\* that is already in the pool.
C15_LastScannedOnlyByMarkScanned ==
    [][lastOp'.name \in RefreshOps \cup {"add_manual_target"} =>
          LET i == lastOp'.inst
          IN \A key \in Keys(targets[i]) :
                DictGet(targets'[i], key).last_scanned
                    = DictGet(targets[i], key).last_scanned]_vars

\* C16: fetch_programs and fetch_protocols never raise to the caller: for
\* every provider outcome and every cache state they return the last
\* successfully cached payload when there is one and an empty list otherwise.
C16_FetchNeverRaises ==
    lastFetch.fetcher \in Fetchers =>
        /\ ~lastFetch.raised
        /\ lastFetch.ret = IF lastGood[lastFetch.fetcher].exists
                           THEN lastGood[lastFetch.fetcher].data
                           ELSE <<>>

FailedFetch(rec) == ~(rec.outcome = "ok" /\ rec.write = "written")

\* C17: a cache file is overwritten by every successful fetch and by nothing
\* else: after a successful fetch the cache holds the returned payload, a
\* failed fetch leaves the cache as it was, and a failed fetch that follows
\* successful ones returns the payload of the most recent successful one.
C17_CacheOverwrittenBySuccessOnly ==
    [][LET f == lastFetch'.fetcher
       IN /\ \A g \in Fetchers \ {f} : cache'[g] = cache[g]
          /\ ~FailedFetch(lastFetch') =>
                /\ ~lastFetch'.raised
                /\ cache'[f] = Cached(lastFetch'.ret)
          /\ FailedFetch(lastFetch') =>
                /\ cache'[f] = cache[f]
                /\ lastGood[f].exists =>
                      /\ ~lastFetch'.raised
                      /\ lastFetch'.ret = lastGood[f].data]_vars

(***************************** notifier properties **************************)
\* the order Critical > High > Medium > Low; 0 for any other name
SeverityRank(severity) ==
    CASE severity = "Critical" -> 4
      [] severity = "High" -> 3
      [] severity = "Medium" -> 2
      [] severity = "Low" -> 1
      [] OTHER -> 0

Qualifies(finding) ==
    /\ finding.confidence >= config.min_confidence
    /\ SeverityRank(finding.severity) > 0
    /\ SeverityRank(finding.severity) >= SeverityRank(config.min_severity)

SameTriple(f, g) ==
    /\ f.contract_address = g.contract_address
    /\ f.vuln_type = g.vuln_type
    /\ f.severity = g.severity

\* when the hash of the finding was last marked sent
SentAt(snt, finding) == FromIsoFormat(snt[FindingHash(finding)])
DedupeTicks == config.dedupe_hours * TicksPerHour

\* C18: should_notify(finding) is true exactly when the confidence reaches
\* min_confidence, the severity is min_severity or a more severe one in the
\* order Critical > High > Medium > Low, and the hash was not marked sent
\* within the dedupe window; with min_severity = Medium a Low finding is never
\* notifiable and a Critical one is whenever confidence and dedup allow; a
\* severity that is none of the four names is never notifiable.
C18_ShouldNotifyIff ==
    lastNotify.name = "should_notify" =>
        \A f \in Findings :
            /\ ShouldNotify(config, sent, now, f) <=>
                  (/\ Qualifies(f)
                   /\ ~(/\ FindingHash(f) \in DOMAIN sent
                         /\ now - SentAt(sent, f) < DedupeTicks))
            /\ SeverityRank(f.severity) = 0 => ~ShouldNotify(config, sent, now, f)
            /\ (config.min_severity = "Medium" /\ f.severity = "Low")
                  => ~ShouldNotify(config, sent, now, f)
            /\ (/\ config.min_severity = "Medium" /\ f.severity = "Critical"
                /\ f.confidence >= config.min_confidence
                /\ FindingHash(f) \notin DOMAIN sent)
                  => ShouldNotify(config, sent, now, f)

\* C18 witness: with min_severity = Medium, should_notify accepts a Medium and
\* a Critical finding, refuses the Low one, the one of unknown severity, the
\* one of confidence 69 and, as a duplicate, one that was just sent.
C18_Witness ==
    /\ lastNotify.name = "should_notify"
    /\ config.min_severity = "Medium"
    /\ ShouldNotify(config, sent, now, FindingMedium)
    /\ ShouldNotify(config, sent, now, FindingCritical)
    /\ ~ShouldNotify(config, sent, now, FindingLow)
    /\ ~ShouldNotify(config, sent, now, FindingInfo)
    /\ ~ShouldNotify(config, sent, now, FindingHighUnsure)
    /\ FindingHash(FindingElsewhere) \in DOMAIN sent
    /\ ~ShouldNotify(config, sent, now, FindingElsewhere)

\* C19: a finding whose hash was marked sent at T is refused by should_notify
\* at every time before T + dedupe_hours and is eligible again (confidence
\* and severity permitting) at every time after T + dedupe_hours.
C19_DedupeWindow ==
    \A f \in Findings :
        FindingHash(f) \in DOMAIN sent =>
            /\ now < SentAt(sent, f) + DedupeTicks => ~ShouldNotify(config, sent, now, f)
            /\ now > SentAt(sent, f) + DedupeTicks =>
                  (ShouldNotify(config, sent, now, f) <=> Qualifies(f))

\* C19 witness: more than dedupe_hours after a finding was sent, should_notify
\* accepts a duplicate of it.
C19_Witness ==
    /\ lastNotify.name = "should_notify"
    /\ FindingHash(FindingHigh) \in DOMAIN sent
    /\ DedupeTicks > 0
    /\ now > SentAt(sent, FindingHigh) + DedupeTicks
    /\ ShouldNotify(config, sent, now, FindingHighAgain)

\* the findings of a returned list of (finding, message) pairs
ReturnedFindings(ret) == [j \in 1..Len(ret) |-> ret[j][1]]

\* the entries of fs at the positions in keep, in order
RECURSIVE PickFrom(_, _, _)
PickFrom(fs, keep, j) ==
    IF j > Len(fs) THEN <<>>
    ELSE (IF j \in keep THEN <<fs[j]>> ELSE <<>>) \o PickFrom(fs, keep, j + 1)

\* a finding of the same triple was sent less than dedupe_hours ago
SentInWindow(f) ==
    \E g \in Findings :
        /\ SameTriple(f, g)
        /\ FindingHash(g) \in DOMAIN sent
        /\ now - SentAt(sent, g) < DedupeTicks

\* C20: two findings are duplicates of each other exactly when they agree on
\* (contract_address, vuln_type, severity): of the findings process_results
\* sees inside the dedupe window with the same triple only the first that
\* qualifies is returned, whatever description, confidence (at or above the
\* minimum), contract_name, chain and session_id are, and findings that
\* differ in one of the three fields never suppress each other.
C20_DuplicatesByTriple ==
    [][lastNotify'.name = "process_results" =>
          LET fs == lastNotify'.findings
              keep == {b \in 1..Len(fs) :
                         /\ Qualifies(fs[b])
                         /\ ~SentInWindow(fs[b])
                         /\ ~\E a \in 1..(b - 1) :
                               SameTriple(fs[a], fs[b]) /\ Qualifies(fs[a])}
          IN /\ ReturnedFindings(lastNotify'.ret) = PickFrom(fs, keep, 1)
             /\ \A b \in keep :
                   /\ FindingHash(fs[b]) \in DOMAIN sent'
                   /\ sent'[FindingHash(fs[b])] = IsoFormat(now)
             /\ sentFile'.data = sent']_vars

\* C20 witness: process_results was given two findings of one triple that
\* differ in name, chain, confidence, description and session, and a third of
\* another severity was sent before; it returned the first of the two only.
C20_Witness ==
    /\ lastNotify.name = "process_results"
    /\ lastNotify.findings = <<FindingHigh, FindingHighAgain>>
    /\ ReturnedFindings(lastNotify.ret) = <<FindingHigh>>
    /\ FindingHash(FindingCritical) \in DOMAIN sent
    /\ SentAt(sent, FindingCritical) = now

(***************************** harvest properties ***************************)
\* the ledger, in memory and in the file, holds the hash of f with the tick t
LedgerHolds(f, t) ==
    /\ FindingHash(f) \in DOMAIN sent
    /\ sent[FindingHash(f)] = IsoFormat(t)
    /\ sentFile.exists
    /\ FindingHash(f) \in DOMAIN sentFile.data
    /\ sentFile.data[FindingHash(f)] = IsoFormat(t)

\* the file holds the hash of every payload with a tick not before its own
FileHoldsPayloads ==
    \A j \in 1..Len(payloads) :
        /\ sentFile.exists
        /\ FindingHash(payloads[j].finding) \in DOMAIN sentFile.data
        /\ FromIsoFormat(sentFile.data[FindingHash(payloads[j].finding)]) >= payloads[j].at

\* C21 as the claim words it: whenever the notify check passes for a
\* finding, in the loop of process_results or called on its own, the ledger
\* holds the hash of the finding with the current time in memory and on disk.
C21_EveryPassingCheckMarks ==
    (lastNotify.name \in {"check", "should_notify"} /\ lastNotify.ret = <<TRUE>>)
        => LedgerHolds(lastNotify.findings[1], now)

\* C21: whenever the notify check passes for a finding inside
\* process_results, the ledger holds the hash of the finding with the current
\* time in memory and on disk before the next finding is checked; the file
\* holds the hash of every payload produced so far at every moment, also
\* after the process died in the middle of a batch, and a later run starts
\* from the ledger in the file. should_notify called on its own writes
\* nothing.
C21_LoopMarksEachPassingFinding ==
    /\ (lastNotify.name = "check" /\ lastNotify.ret = <<TRUE>>)
          => LedgerHolds(lastNotify.findings[1], now)
    /\ FileHoldsPayloads
    /\ (lastNotify.name = "start") => (sent = LoadSent(sentFile))
    /\ (lastNotify.name = "should_notify") => (sent = LoadSent(sentFile))

\* a run died after its first finding passed and before its second was
\* checked, and a later run has loaded the ledger with that finding's hash
C21_Witness ==
    /\ lastNotify.name = "start"
    /\ loop.active
    /\ Len(payloads) = 1
    /\ FindingHash(payloads[1].finding) \in DOMAIN sent
    /\ now > payloads[1].at

\* C22: delivery is at most once per dedupe window. Over every sequence of
\* harvest runs, each a new notifier, with runs that die in the loop and
\* deliveries that fail, two payloads produced for one finding hash are at
\* least dedupe_hours apart; when a delivery has failed or a run has died,
\* the file still holds the mark of every payload produced.
C22_AtMostOncePerWindow ==
    /\ \A i \in 1..Len(payloads) : \A j \in (i + 1)..Len(payloads) :
          (FindingHash(payloads[i].finding) = FindingHash(payloads[j].finding))
              => (payloads[j].at - payloads[i].at >= DedupeTicks)
    /\ (lastNotify.name \in {"delivery_failed", "killed"}) => FileHoldsPayloads
    /\ (lastNotify.name = "delivery_failed") =>
          \A k \in 1..Len(lastNotify.ret) :
              /\ sentFile.exists
              /\ FindingHash(lastNotify.ret[k][1]) \in DOMAIN sentFile.data

\* a run exactly one window after another has produced a payload for the
\* same hash a second time, and its delivery has failed
C22_Witness ==
    /\ Len(payloads) = 2
    /\ FindingHash(payloads[1].finding) = FindingHash(payloads[2].finding)
    /\ payloads[2].at - payloads[1].at = DedupeTicks
    /\ lastNotify.name = "delivery_failed"
    /\ Len(lastNotify.ret) = 1

(***************************** feed properties ******************************)
\* an address as the specification wants it: prefix 0x, 42 characters
ValidAddress(a) == StartsWith(a, HexPrefix) /\ Len(a) = ADDRESS_LEN

\* the payout a program states, 0 if it states none
Payout(program) == Get(program, "maxBounty", Num(0)).v

\* the assets of a program that are smart contracts
ContractAssets(program) ==
    {a \in Range(Get(program, "assetsInScope", <<>>)) :
        LowerStr(Get(a, "type", "")) \in CONTRACT_TYPES}

\* every field of the program that is read has the type the code expects
WellFormedProgram(program) ==
    /\ Get(program, "maxBounty", Num(0)).t = "int"
    /\ \A a \in ContractAssets(program) :
          /\ Get(a, "target", Str(<<>>)).t = "str"
          /\ Get(a, "chain", Str(<<>>)).t = "str"

\* the program has a smart-contract asset with a valid address on a chain
\* that get_targets allows
HasAllowedContract(program) ==
    \E a \in ContractAssets(program) :
        /\ Get(a, "target", Str(<<>>)).t = "str"
        /\ ValidAddress(Get(a, "target", Str(<<>>)).v)
        /\ IndexIn(IMMUNEFI_CHAINS, DetectChain(a)) # 0

YieldsTarget(program, ret) ==
    \E k \in 1..Len(ret) : ret[k].program = Get(program, "project", "Unknown")

\* C23 as the claim words it: for every min_bounty >= 0 every returned target
\* has max_bounty >= min_bounty, and every program with max_bounty >=
\* min_bounty and a smart-contract asset with a valid address on an allowed
\* chain yields a target.
C23_DropsExactlyBelowMinBounty ==
    (lastCall.name = "get_targets") =>
        /\ \A k \in 1..Len(lastCall.ret) :
              lastCall.ret[k].max_bounty >= lastCall.min_bounty
        /\ \A j \in 1..Len(lastCall.programs) :
              LET program == lastCall.programs[j]
              IN (/\ WellFormedProgram(program)
                  /\ Payout(program) >= lastCall.min_bounty
                  /\ HasAllowedContract(program))
                    => YieldsTarget(program, lastCall.ret)

\* C23: get_targets(min_bounty) drops a record of the bounty feed exactly
\* when its payout is below the larger of min_bounty and the fixed floor of
\* 10,000 USD in parse_bounty: every returned target has max_bounty at least
\* that, every well-formed program with max_bounty at least that and a
\* smart-contract asset with a valid address on an allowed chain yields a
\* target, and no program below it yields one.
C23_DropsBelowMinBountyOrFloor ==
    (lastCall.name = "get_targets") =>
        LET floor == Max(lastCall.min_bounty, PARSE_FLOOR)
        IN /\ \A k \in 1..Len(lastCall.ret) : lastCall.ret[k].max_bounty >= floor
           /\ \A j \in 1..Len(lastCall.programs) :
                 LET program == lastCall.programs[j]
                 IN /\ (/\ WellFormedProgram(program)
                        /\ Payout(program) >= floor
                        /\ HasAllowedContract(program))
                          => YieldsTarget(program, lastCall.ret)
                    /\ (WellFormedProgram(program) /\ Payout(program) < floor)
                          => ~YieldsTarget(program, lastCall.ret)

\* get_targets(5000) was given a program that pays 7,000 USD and one that
\* pays 25,000 USD, both with a valid contract on an allowed chain, and
\* returned a target of the second only
C23_Witness ==
    /\ lastCall.name = "get_targets"
    /\ lastCall.min_bounty = 5
    /\ lastCall.programs = <<ProgSmall, ProgMid>>
    /\ HasAllowedContract(ProgSmall)
    /\ Len(lastCall.ret) = 1
    /\ lastCall.ret[1].program = "Mid"
    /\ lastCall.ret[1].max_bounty = 25

\* the assets of the programs that are repository links
RepoAssets(program) ==
    {a \in ContractAssets(program) :
        /\ Get(a, "target", Str(<<>>)).t = "str"
        /\ ~ValidAddress(Get(a, "target", Str(<<>>)).v)
        /\ Contains(Lower(Get(a, "target", Str(<<>>)).v), GithubCom)}

\* what get_targets returned holds valid addresses only, and a repository
\* link of a program is no target and is listed with every target of it
BountyTargetsValid ==
    (lastCall.name = "get_targets") =>
        /\ \A k \in 1..Len(lastCall.ret) : ValidAddress(lastCall.ret[k].address)
        /\ \A j \in 1..Len(lastCall.programs) :
              \A a \in RepoAssets(lastCall.programs[j]) :
                  \A k \in 1..Len(lastCall.ret) :
                      /\ lastCall.ret[k].address # a.target.v
                      /\ (lastCall.ret[k].program
                              = Get(lastCall.programs[j], "project", "Unknown"))
                            => (a.target.v \in Range(lastCall.ret[k].assets_in_scope))

\* C24: every target that get_targets returns and every target that either
\* refresh puts into the pool has a syntactically valid address (prefix 0x,
\* 42 characters); an asset that is a repository link never becomes a
\* target and stays listed in assets_in_scope.
C24_OnlyValidAddresses ==
    /\ BountyTargetsValid
    /\ \A t \in Range(DictValues(targets[1])) : ValidAddress(t.address)

\* the chain string of an asset in lower case, and the text of its name and
\* description
ChainString(asset) == Lower(Get(asset, "chain", Str(<<>>)).v)
AssetText(asset) ==
    Lower(Get(asset, "name", <<>>) \o <<" ">> \o Get(asset, "description", <<>>))
Synonyms ==
    {<<<<"m", "a", "t", "i", "c">>, "polygon">>, <<<<"e", "t", "h">>, "ethereum">>,
     <<<<"m", "a", "i", "n", "n", "e", "t">>, "ethereum">>, <<<<"b", "i", "n", "a", "n", "c", "e">>, "bsc">>}
Listed(chain) == \E k \in 1..Len(CHAIN_MAP) : CHAIN_MAP[k][1] = chain

\* a listed chain string is given the chain the table names for it
ListedChainIsCanonical ==
    (lastCall.name = "_detect_chain") =>
        /\ \A syn \in Synonyms :
              (ChainString(lastCall.asset) = syn[1]) => (lastCall.ret = syn[2])
        /\ \A k \in 1..Len(CHAIN_MAP) :
              (ChainString(lastCall.asset) = CHAIN_MAP[k][1])
                  => (lastCall.ret = CHAIN_MAP[k][2])

\* C25 as the claim words it: an asset whose chain string is a listed synonym
\* is given the canonical chain name, and an asset whose chain string is not
\* in the table is given the chain ethereum.
C25_UnlistedChainIsEthereum ==
    /\ ListedChainIsCanonical
    /\ (lastCall.name = "_detect_chain" /\ ~Listed(ChainString(lastCall.asset)))
          => (lastCall.ret = "ethereum")

\* C25: an asset whose chain string is a listed synonym is given the
\* canonical chain name (matic -> polygon, eth and mainnet -> ethereum,
\* binance -> bsc); an asset whose chain string is not in the table is given
\* the chain of the first keyword of the table, in the order of the table,
\* that its name and description contain, and ethereum when they contain none.
C25_UnlistedChainByKeywordThenEthereum ==
    /\ ListedChainIsCanonical
    /\ (lastCall.name = "_detect_chain" /\ ~Listed(ChainString(lastCall.asset)))
          => LET text == AssetText(lastCall.asset)
                 hits == {k \in 1..Len(CHAIN_MAP) : Contains(text, CHAIN_MAP[k][1])}
             IN IF hits = {} THEN lastCall.ret = "ethereum"
                ELSE \E k \in hits : /\ \A n \in hits : k <= n
                                     /\ lastCall.ret = CHAIN_MAP[k][2]

\* _detect_chain was given an asset with the chain string "zk", which the
\* table does not list, and the name "Base Pool", and returned base
C25_Witness ==
    /\ lastCall.name = "_detect_chain"
    /\ lastCall.asset = AssetUnlistedNamed
    /\ ~Listed(ChainString(lastCall.asset))
    /\ lastCall.ret = "base"

\* every field of the protocol that is read has the type the code expects
WellFormedProtocol(p) ==
    /\ Get(p, "tvl", NullNum).t \in {"int", "null"}
    /\ Get(p, "chains", ChainList(<<>>)).t = "list"

\* what the fetcher returns for the records of a feed taken one by one
TargetsOfProgram(program, min_bounty) ==
    GetTargets(<<program>>, min_bounty, IMMUNEFI_CHAINS)
TargetsOfProtocol(p) == GetTopOverall(<<p>>, TOP_LIMIT, DEFILLAMA_CHAINS).ret

\* get_targets skips a malformed program by itself
MalformedProgramSkippedAlone ==
    (lastCall.name = "get_targets") =>
        \A j \in 1..Len(lastCall.programs) :
            LET program == lastCall.programs[j]
                own == TargetsOfProgram(program, lastCall.min_bounty)
            IN /\ WellFormedProgram(program)
                    => \A k \in 1..Len(own) : own[k] \in Range(lastCall.ret)
               /\ ~WellFormedProgram(program) => own = <<>>

\* C26: a malformed record in a feed (missing required field, wrong type of
\* a field, invalid address) is skipped by itself: get_targets and
\* get_top_overall do not raise and return the targets of every well-formed
\* record of the same batch.
C26_MalformedRecordSkippedAlone ==
    /\ MalformedProgramSkippedAlone
    /\ (lastCall.name = "get_top_overall") =>
          /\ ~lastCall.raised
          /\ \A j \in 1..Len(lastCall.protocols) :
                WellFormedProtocol(lastCall.protocols[j]) =>
                    \A t \in Range(TargetsOfProtocol(lastCall.protocols[j])) :
                        t \in Range(lastCall.ret)

(***************************** persistence failure ***************************)
SavingOps == {"refresh_all", "add_manual_target", "mark_scanned"}
DiskIsMemory ==
    /\ targetsFile = [exists |-> TRUE, data |-> DictValues(targets[1])]
    /\ scannedFile = [exists |-> TRUE, data |-> scanned[1]]

\* C27: when a write of the pool file or of the history file fails during
\* refresh_all, add_manual_target or mark_scanned, the operation raises; when
\* it returns normally, the two files hold the state in memory.
C27_FailedWriteIsRaised ==
    (lastCall.name \in SavingOps) =>
        /\ (lastCall.write # "written") => lastCall.raised
        /\ ~lastCall.raised => DiskIsMemory

\* mark_scanned changed the history in memory, the write of the history file
\* failed after the pool file was written, and the call raised
C27_Witness ==
    /\ lastCall.name = "mark_scanned"
    /\ lastCall.write = "scanned_open_fails"
    /\ lastCall.raised
    /\ scanned[1] # EmptyHistory
    /\ targetsFile.exists
    /\ ~DiskIsMemory

(***************************** score properties ******************************)
\* C28: the priority score is monotone: for a fixed chain and has-bounty
\* flag, a larger max_bounty with the same tvl and a larger tvl with the same
\* max_bounty never give a lower score.
C28_PriorityMonotone ==
    (lastCall.name = "_calculate_priority") =>
        /\ \A b \in PriorityBounties :
              (b >= lastCall.max_bounty) =>
                  (CalculatePriority(b, lastCall.tvl, lastCall.has_bounty, lastCall.chain)
                      >= lastCall.ret)
        /\ \A t \in PriorityTvls :
              (t >= lastCall.tvl) =>
                  (CalculatePriority(lastCall.max_bounty, t, lastCall.has_bounty,
                                     lastCall.chain)
                      >= lastCall.ret)

\* the score of a bounty past the cap, which a smaller bounty and a smaller
\* tvl both fall short of
C28_Witness ==
    /\ lastCall.name = "_calculate_priority"
    /\ lastCall.max_bounty = 1000000
    /\ lastCall.tvl = 50000
    /\ lastCall.ret > CalculatePriority(1000, 50000, lastCall.has_bounty, lastCall.chain)
    /\ lastCall.ret > CalculatePriority(1000000, 10000, lastCall.has_bounty, lastCall.chain)

\* the chain component as the claim lists it, and the smallest bounty, in
\* thousands of USD, whose part reaches the cap
ClaimedChainScore(chain) ==
    CASE chain = "ethereum" -> 10 [] chain = "base" -> 9 [] chain = "arbitrum" -> 8
      [] chain = "optimism" -> 7 [] chain = "polygon" -> 6 [] chain = "bsc" -> 5
      [] OTHER -> 3
BountyCeiling == 9999

\* C29: the priority score is bounded. The bounty part, the score less the
\* score without a bounty, is at most 40; the TVL part at most 30; the
\* program bonus is 20 or 0; the chain part is the value of the table, 3 for
\* a chain not in it; the total is at least 3 and at most 100; two bounties
\* past the ceiling give the same score. (Scores in hundredths.)
C29_PriorityBounded ==
    (lastCall.name = "_calculate_priority") =>
        LET b == lastCall.max_bounty
            t == lastCall.tvl
            h == lastCall.has_bounty
            c == lastCall.chain
        IN /\ lastCall.ret - CalculatePriority(0, t, h, c) \in 0..(40 * 100)
           /\ lastCall.ret - CalculatePriority(b, 0, h, c) \in 0..(30 * 100)
           /\ lastCall.ret - CalculatePriority(b, t, FALSE, c)
                  = (IF h THEN 20 * 100 ELSE 0)
           /\ lastCall.ret - CalculatePriority(b, t, h, "")
                  = (ClaimedChainScore(c) - 3) * 100
           /\ CalculatePriority(0, 0, FALSE, c) = ClaimedChainScore(c) * 100
           /\ lastCall.ret >= 3 * 100
           /\ lastCall.ret <= 100 * 100
           /\ \A b2 \in PriorityBounties :
                 (b >= BountyCeiling /\ b2 >= BountyCeiling) =>
                     (CalculatePriority(b2, t, h, c) = lastCall.ret)

\* a bounty and a tvl far past their caps, with a program, on ethereum:
\* the score is 100
C29_Witness ==
    /\ lastCall.name = "_calculate_priority"
    /\ lastCall.max_bounty = 1000000000
    /\ lastCall.tvl = 1000000000
    /\ lastCall.has_bounty
    /\ lastCall.chain = "ethereum"
    /\ lastCall.ret = 100 * 100

(***************************** findings in a text ***************************)
\* A text is a sequence of lines. A line is a heading that opens with a
\* severity ("## Critical"), a labelled severity ("Severity: low"), a bold
\* severity ("**low**"), a confidence marker ("Confidence: 95%") or prose
\* that none of the four patterns matches, with the words it says.
MaxTextLen == 4
DEFAULT_CONFIDENCE == 70
SEVERITY_PATTERNS == <<"markdown", "labeled", "bold">>
SeveritySpellings == {"Critical", "low"}
MarkerValues == {95, 40}
ProseWords == {<<>>, <<"R", "e", "-", "e", "n", "t", "r", "a", "n", "c", "y">>, <<"o", "v", "e", "r", "f", "l", "o", "w">>}
Prose(words) == [k |-> "prose", words |-> words]
Lines ==
    [k : {"markdown", "labeled", "bold"}, severity : SeveritySpellings]
        \cup [k : {"confidence"}, v : MarkerValues]
        \cup {Prose(w) : w \in ProseWords}
Texts == UNION {[1..n -> Lines] : n \in 0..MaxTextLen}

\* str.capitalize() of the spellings re.IGNORECASE lets through
Capitalize(severity) ==
    CASE severity = "low" -> "Low"
      [] OTHER -> severity

\* vuln_keywords, in the order of the dict
VULN_KEYWORDS ==
    <<
      <<"reentrancy",
        <<<<"r", "e", "e", "n", "t", "r", "a", "n", "c", "y">>,
          <<"r", "e", "e", "n", "t", "r", "a", "n", "t">>,
          <<"r", "e", "-", "e", "n", "t", "r", "a", "n", "c", "y">>>>>>,
      <<"flash loan",
        <<<<"f", "l", "a", "s", "h", " ", "l", "o", "a", "n">>,
          <<"f", "l", "a", "s", "h", "l", "o", "a", "n">>,
          <<"f", "l", "a", "s", "h", "-", "l", "o", "a", "n">>>>>>,
      <<"oracle manipulation",
        <<<<"o", "r", "a", "c", "l", "e">>,
          <<"p", "r", "i", "c", "e", " ", "m", "a", "n", "i", "p", "u", "l", "a", "t", "i", "o", "n">>>>>>,
      <<"access control",
        <<<<"a", "c", "c", "e", "s", "s", " ", "c", "o", "n", "t", "r", "o", "l">>,
          <<"u", "n", "a", "u", "t", "h", "o", "r", "i", "z", "e", "d">>,
          <<"p", "e", "r", "m", "i", "s", "s", "i", "o", "n">>>>>>,
      <<"integer overflow",
        <<<<"o", "v", "e", "r", "f", "l", "o", "w">>,
          <<"u", "n", "d", "e", "r", "f", "l", "o", "w">>,
          <<"i", "n", "t", "e", "g", "e", "r">>>>>>,
      <<"inflation attack",
        <<<<"i", "n", "f", "l", "a", "t", "i", "o", "n">>,
          <<"f", "i", "r", "s", "t", " ", "d", "e", "p", "o", "s", "i", "t", "o", "r">>,
          <<"d", "o", "n", "a", "t", "i", "o", "n">>>>>>,
      <<"front-running",
        <<<<"f", "r", "o", "n", "t", "-", "r", "u", "n">>,
          <<"f", "r", "o", "n", "t", "r", "u", "n">>,
          <<"m", "e", "v">>,
          <<"s", "a", "n", "d", "w", "i", "c", "h">>>>>>,
      <<"logic error",
        <<<<"l", "o", "g", "i", "c">>,
          <<"e", "d", "g", "e", " ", "c", "a", "s", "e">>,
          <<"o", "f", "f", "-", "b", "y", "-", "o", "n", "e">>>>>>
    >>

\* kw in text_lower: the words of the severity and marker lines hold none of
\* the keywords, and no keyword runs over the end of a line
Mentions(text, kw) ==
    \E i \in 1..Len(text) : text[i].k = "prose" /\ Contains(Lower(text[i].words), kw)

GuessVulnType(text) ==
    LET hits == {n \in 1..Len(VULN_KEYWORDS) :
                    \E j \in 1..Len(VULN_KEYWORDS[n][2]) :
                        Mentions(text, VULN_KEYWORDS[n][2][j])}
    IN IF hits = {} THEN "unknown"
       ELSE VULN_KEYWORDS[CHOOSE n \in hits : \A m \in hits : n <= m][1]

\* group 2 of the heading pattern: what follows the heading at line i, up to
\* the next heading or the end of the text
RECURSIVE Desc(_, _)
Desc(text, i) ==
    IF i + 1 > Len(text) \/ text[i + 1].k = "markdown" THEN <<>>
    ELSE <<text[i + 1]>> \o Desc(text, i + 1)

SEE_PR == <<Prose(<<"S", "e", "e", " ", "P", "R", " ", "f", "o", "r", " ", "d", "e", "t", "a", "i", "l", "s">>)>>

\* Finding(contract_name="Unknown", contract_address="", chain="", ...); the
\* texts here are shorter than the 500 characters desc[:500] keeps
NewFinding(text, i) ==
    LET desc == IF text[i].k = "markdown" THEN Desc(text, i) ELSE <<>>
    IN Finding("Unknown", "", "",
               GuessVulnType(IF desc # <<>> THEN desc ELSE text),
               Capitalize(text[i].severity),
               DEFAULT_CONFIDENCE,
               IF desc # <<>> THEN desc ELSE SEE_PR,
               NONE)
           @@ [pr_url |-> NONE]

\* re.findall of one pattern: its matches in the order of the text, each
\* made a Finding with the default confidence
RECURSIVE FindAll(_, _, _)
FindAll(text, pattern, i) ==
    IF i > Len(text) THEN <<>>
    ELSE (IF text[i].k = pattern THEN <<NewFinding(text, i)>> ELSE <<>>)
         \o FindAll(text, pattern, i + 1)

\* re.search: the first confidence marker of the text, 0 when there is none
RECURSIVE ConfMatch(_, _)
ConfMatch(text, i) ==
    IF i > Len(text) THEN 0
    ELSE IF text[i].k = "confidence" THEN i
    ELSE ConfMatch(text, i + 1)

\* _extract_from_text with the marker's value given to every finding
ExtractFromTextMarksAll(text) ==
    LET findings == FindAll(text, SEVERITY_PATTERNS[1], 1)
                    \o FindAll(text, SEVERITY_PATTERNS[2], 1)
                    \o FindAll(text, SEVERITY_PATTERNS[3], 1)
        conf_match == ConfMatch(text, 1)
    IN IF conf_match # 0 /\ findings # <<>>
       THEN [i \in 1..Len(findings) |->
                [findings[i] EXCEPT !.confidence = text[conf_match].v]]
       ELSE findings

\* _extract_from_text with a marker that makes a finding of its own when the
\* text has none
ExtractFromTextMarkerAlone(text) ==
    LET findings == FindAll(text, SEVERITY_PATTERNS[1], 1)
                    \o FindAll(text, SEVERITY_PATTERNS[2], 1)
                    \o FindAll(text, SEVERITY_PATTERNS[3], 1)
        conf_match == ConfMatch(text, 1)
    IN IF conf_match = 0 THEN findings
       ELSE IF findings = <<>>
       THEN <<Finding("Unknown", "", "", GuessVulnType(text), "Low",
                      text[conf_match].v, SEE_PR, NONE) @@ [pr_url |-> NONE]>>
       ELSE [findings EXCEPT ![Len(findings)].confidence = text[conf_match].v]

ExtractFromText(text) ==
    LET findings == FindAll(text, SEVERITY_PATTERNS[1], 1)
                    \o FindAll(text, SEVERITY_PATTERNS[2], 1)
                    \o FindAll(text, SEVERITY_PATTERNS[3], 1)
        conf_match == ConfMatch(text, 1)
    IN IF conf_match # 0 /\ findings # <<>>
       THEN [findings EXCEPT ![Len(findings)].confidence = text[conf_match].v]
       ELSE findings

\* str.upper()
UpperChar(c) ==
    CASE c = "a" -> "A" [] c = "b" -> "B" [] c = "c" -> "C" [] c = "d" -> "D" [] c = "e" -> "E"
      [] c = "f" -> "F" [] c = "g" -> "G" [] c = "h" -> "H" [] c = "i" -> "I" [] c = "j" -> "J"
      [] c = "k" -> "K" [] c = "l" -> "L" [] c = "m" -> "M" [] c = "n" -> "N" [] c = "o" -> "O"
      [] c = "p" -> "P" [] c = "q" -> "Q" [] c = "r" -> "R" [] c = "s" -> "S" [] c = "t" -> "T"
      [] c = "u" -> "U" [] c = "v" -> "V" [] c = "w" -> "W" [] c = "x" -> "X" [] c = "y" -> "Y"
      [] c = "z" -> "Z"
      [] OTHER -> c
Upper(s) == [i \in 1..Len(s) |-> UpperChar(s[i])]
FINDINGS == <<"F", "I", "N", "D", "I", "N", "G", "S">>

\* the changes of one codeChange: the content of every file whose path,
\* in upper case, has FINDINGS in it
RECURSIVE ChangesLoop(_, _)
ChangesLoop(changes, i) ==
    IF i > Len(changes) THEN <<>>
    ELSE (IF Contains(Upper(Get(changes[i], "path", <<>>)), FINDINGS)
          THEN ExtractFromText(Get(changes[i], "content", <<>>))
          ELSE <<>>)
         \o ChangesLoop(changes, i + 1)

RECURSIVE ActivitiesLoop(_, _)
ActivitiesLoop(activities, i) ==
    IF i > Len(activities) THEN <<>>
    ELSE (IF "agentOutput" \in DOMAIN activities[i]
          THEN ExtractFromText(Get(activities[i].agentOutput, "output", <<>>))
          ELSE <<>>)
         \o (IF "codeChange" \in DOMAIN activities[i]
             THEN ChangesLoop(Get(activities[i].codeChange, "changes", <<>>), 1)
             ELSE <<>>)
         \o ActivitiesLoop(activities, i + 1)

ParseFindings(artifacts, activities) ==
    LET findings == ActivitiesLoop(activities, 1)
    IN IF "pullRequest" \in DOMAIN artifacts
       THEN [i \in 1..Len(findings) |->
                [findings[i] EXCEPT !.pr_url = Get(artifacts.pullRequest, "url", NONE)]]
       ELSE findings

\* what a session hands to parse_findings
MaxActivities == 2
TextMarkerOnly == <<Prose(<<>>), [k |-> "confidence", v |-> 95]>>
TextProse == <<Prose(<<"o", "v", "e", "r", "f", "l", "o", "w">>)>>
TextHeading == <<[k |-> "markdown", severity |-> "Critical"], Prose(<<"R", "e", "-", "e", "n", "t", "r", "a", "n", "c", "y">>)>>
TextBold == <<[k |-> "bold", severity |-> "low"], [k |-> "confidence", v |-> 40]>>
FindingsPath == <<"n", "o", "t", "e", "s", "/", "F", "i", "n", "d", "i", "n", "g", "s", ".", "m", "d">>
ReadmePath == <<"R", "E", "A", "D", "M", "E", ".", "m", "d">>
ChangeLists ==
    {<<>>} \cup {<<[path |-> p, content |-> t]>> :
                    p \in {FindingsPath, ReadmePath}, t \in {TextHeading, TextMarkerOnly}}
Activities ==
    {[id |-> "a"]}
        \cup {[id |-> "a", agentOutput |-> [output |-> t]] :
                 t \in {<<>>, TextMarkerOnly, TextProse, TextHeading, TextBold}}
        \cup {[id |-> "a", agentOutput |-> [format |-> "none"]]}
        \cup {[id |-> "a", codeChange |-> [changes |-> cs]] : cs \in ChangeLists}
        \cup {[id |-> "a", agentOutput |-> [output |-> TextBold],
               codeChange |-> [changes |-> <<[path |-> FindingsPath,
                                              content |-> TextHeading]>>]]}
ActivityLists == UNION {[1..n -> Activities] : n \in 0..MaxActivities}
Artifacts ==
    {[session |-> "s1"],
     [session |-> "s1", pullRequest |-> [url |-> "https://pr/1"]],
     [session |-> "s1", pullRequest |-> [state |-> "open"]]}

InitExtract ==
    /\ AggregatorIdle
    /\ FetchIdle
    /\ NotifierIdle
    /\ ToolIdle
    /\ lastCall \in {[name |-> "text", text |-> t] : t \in Texts}
                    \cup {[name |-> "session", artifacts |-> ar, activities |-> ac] :
                             ar \in Artifacts, ac \in ActivityLists}

CallExtractFromText ==
    /\ lastCall.name = "text"
    /\ lastCall' = [name |-> "_extract_from_text", text |-> lastCall.text,
                    ret |-> ExtractFromText(lastCall.text)]
    /\ UNCHANGED <<aggVars, fetchVars, notifyVars, harvestVars, toolVars>>

CallParseFindings ==
    /\ lastCall.name = "session"
    /\ lastCall' = [name |-> "parse_findings", artifacts |-> lastCall.artifacts,
                    activities |-> lastCall.activities,
                    ret |-> ParseFindings(lastCall.artifacts, lastCall.activities)]
    /\ UNCHANGED <<aggVars, fetchVars, notifyVars, harvestVars, toolVars>>

NextExtract == CallExtractFromText \/ CallParseFindings

SpecExtract == InitExtract /\ [][NextExtract]_vars

\* the lines of a text that are findings, and the line parsed last: the
\* last match of the last pattern that matches at all
FindingLines(text) == {i \in 1..Len(text) : text[i].k \in {"markdown", "labeled", "bold"}}
ParsedLast(text) ==
    LET of(k) == {i \in FindingLines(text) : text[i].k = k}
    IN IF of("bold") # {} THEN SetMax(of("bold"))
       ELSE IF of("labeled") # {} THEN SetMax(of("labeled"))
       ELSE SetMax(of("markdown"))
Markers(text) == {i \in 1..Len(text) : text[i].k = "confidence"}
FirstOf(S) == CHOOSE x \in S : \A y \in S : x <= y

NonMatching(text) == FindingLines(text) = {}
OutputsOf(activities) ==
    {activities[i].agentOutput.output :
        i \in {j \in 1..Len(activities) :
                  /\ "agentOutput" \in DOMAIN activities[j]
                  /\ "output" \in DOMAIN activities[j].agentOutput}}
FindingsFilesOf(activities) ==
    UNION {{c.content : c \in {activities[i].codeChange.changes[n] :
                                  n \in 1..Len(activities[i].codeChange.changes)}
                        \cap {c \in [path : {FindingsPath, ReadmePath},
                                     content : {TextHeading, TextMarkerOnly}] :
                                 Contains(Lower(c.path), <<"f", "i", "n", "d", "i", "n", "g", "s">>)}} :
           i \in {j \in 1..Len(activities) : "codeChange" \in DOMAIN activities[j]}}

\* C31: a text that matches none of the three severity patterns yields no
\* findings (the call returns the empty list), also when it carries a
\* confidence marker; a session with no activities, or whose outputs and
\* findings files match none of the patterns, yields an empty list.
C31_NoMatchNoFindings ==
    /\ (lastCall.name = "_extract_from_text" /\ NonMatching(lastCall.text)) =>
           (lastCall.ret = <<>>)
    /\ (/\ lastCall.name = "parse_findings"
        /\ \A t \in OutputsOf(lastCall.activities) \cup FindingsFilesOf(lastCall.activities) :
              NonMatching(t)) =>
           (lastCall.ret = <<>>)

\* a session whose output and whose findings file both hold a confidence
\* marker and no severity: nothing is found
C31_Witness ==
    /\ lastCall.name = "parse_findings"
    /\ lastCall.activities =
           <<[id |-> "a", agentOutput |-> [output |-> TextMarkerOnly]],
             [id |-> "a", codeChange |-> [changes |-> <<[path |-> FindingsPath,
                                                         content |-> TextMarkerOnly]>>]]>>
    /\ Markers(TextMarkerOnly) # {}
    /\ lastCall.ret = <<>>

(***************************** the scanner's pool ****************************)
\* Scanner._scan_contracts: one scan_one task for each contract, all under
\* one asyncio.Semaphore(config.max_concurrent_scans). The limit is whatever
\* integer MAX_CONCURRENT_SCANS holds; Config checks no range.
MaxContracts == 3
ScanLimits == {-1, 0, 1, 2}
ContractLists == UNION {[1..n -> {"0xA", "0xB"}] : n \in 0..MaxContracts}
AnalysisOutcomes == {"analysis", "exception"}

\* asyncio.Semaphore(value): ValueError for a negative value
SemaphoreRaises(value) == value < 0

\* the tasks of the scan s that are inside analyze_contract
InProgress(s) == {i \in DOMAIN s.task : s.task[i] = "analysing"}

\* scan_one leaving "async with semaphore" only when the analysis returned
ScanOneExitLeaks(s, i, outcome) ==
    [s EXCEPT !.task[i] = IF outcome = "analysis" THEN "done" ELSE "failed",
              !.value = IF outcome = "analysis" THEN @ + 1 ELSE @]

\* scan_one entering "async with semaphore": the slot is taken and
\* analyze_contract called
ScanOneEnter(s, i) ==
    [s EXCEPT !.task[i] = "analysing", !.value = @ - 1, !.calls[i] = @ + 1]

\* scan_one leaving "async with semaphore", with the analysis or, after an
\* Exception, with None: the slot is given back either way
ScanOneExit(s, i, outcome) ==
    [s EXCEPT !.task[i] = IF outcome = "analysis" THEN "done" ELSE "failed",
              !.value = @ + 1]

ScanStart ==
    /\ scan.phase = "idle"
    /\ \E limit \in ScanLimits, contracts \in ContractLists :
          scan' = IF SemaphoreRaises(limit)
                  THEN [phase |-> "raised", limit |-> limit, contracts |-> contracts]
                  ELSE [phase |-> "running", limit |-> limit, contracts |-> contracts,
                        value |-> limit,
                        task |-> [i \in 1..Len(contracts) |-> "waiting"],
                        calls |-> [i \in 1..Len(contracts) |-> 0],
                        collected |-> {},
                        contracts_scanned |-> 0]
    /\ UNCHANGED <<aggVars, fetchVars, notifyVars, harvestVars, pureVars, rpc, run>>

ScanAcquire ==
    /\ scan.phase = "running"
    /\ \E i \in DOMAIN scan.task :
          /\ scan.task[i] = "waiting"
          /\ scan.value > 0
          /\ scan' = ScanOneEnter(scan, i)
    /\ UNCHANGED <<aggVars, fetchVars, notifyVars, harvestVars, pureVars, rpc, run>>

ScanFinish ==
    /\ scan.phase = "running"
    /\ \E i \in DOMAIN scan.task, outcome \in AnalysisOutcomes :
          /\ scan.task[i] = "analysing"
          /\ scan' = ScanOneExit(scan, i, outcome)
    /\ UNCHANGED <<aggVars, fetchVars, notifyVars, harvestVars, pureVars, rpc, run>>

\* the as_completed loop takes the next finished task and counts its analysis
ScanCollect ==
    /\ scan.phase = "running"
    /\ \E i \in DOMAIN scan.task :
          /\ scan.task[i] \in {"done", "failed"}
          /\ i \notin scan.collected
          /\ scan' = [scan EXCEPT !.collected = @ \cup {i},
                                  !.contracts_scanned =
                                      IF scan.task[i] = "done" THEN @ + 1 ELSE @]
    /\ UNCHANGED <<aggVars, fetchVars, notifyVars, harvestVars, pureVars, rpc, run>>

ScanReturn ==
    /\ scan.phase = "running"
    /\ scan.collected = DOMAIN scan.task
    /\ scan' = [scan EXCEPT !.phase = "returned"]
    /\ UNCHANGED <<aggVars, fetchVars, notifyVars, harvestVars, pureVars, rpc, run>>

NextScan == ScanStart \/ ScanAcquire \/ ScanFinish \/ ScanCollect \/ ScanReturn

\* the event loop runs every task that can run, and an analysis that was
\* started returns or raises
SpecScan == Init /\ [][NextScan]_vars /\ WF_vars(NextScan)

\* the scan has returned with every contract analysed once
AllAnalysedOnce ==
    /\ scan.phase = "returned"
    /\ \A i \in 1..Len(scan.contracts) : scan.calls[i] = 1

WithinLimit ==
    (scan.phase \in {"running", "returned"}) =>
        /\ Cardinality(InProgress(scan)) <= scan.limit
        /\ \A i \in DOMAIN scan.task : scan.calls[i] <= 1

MaxCalls == 2
MaxNotes == 1
CALL_TIMEOUT == 30
WAIT_TIMEOUT == 5
ClientVariants == {"next_id", "literal"}
Timeout == [error |-> "timeout"]
NoReturn == [none |-> TRUE]
NoToolCall == [active |-> FALSE]

\* _next_id, and self.req_id += 1 of the other variant
NextId(req_id) == req_id + 1

\* the id start() gives the initialize request and the counter it leaves
InitializeId(variant) == IF variant = "next_id" THEN NextId(0) ELSE 1
ReqIdAfterStart(variant) == IF variant = "next_id" THEN NextId(0) ELSE 0

\* a call that takes the first response on the queue, whatever its id
MatchesAny(resp, req_id) == "id" \in DOMAIN resp

\* resp and resp.get("id") == req_id
Matches(resp, req_id) == "id" \in DOMAIN resp /\ resp.id = req_id

\* the response of the server to request number k of the client
ResponseTo(r, k) == [id |-> r.sent[k].id, re |-> k]

RpcStart ==
    /\ rpc.phase = "idle"
    /\ \E variant \in ClientVariants, inTime \in BOOLEAN :
          rpc' = [phase |-> "started", variant |-> variant,
                  req_id |-> ReqIdAfterStart(variant),
                  sent |-> <<[id |-> InitializeId(variant), method |-> "initialize"]>>,
                  pending |-> IF inTime THEN {} ELSE {1},
                  queue |-> <<>>,
                  call |-> NoToolCall,
                  result |-> NoReturn,
                  notes |-> 0]
    /\ UNCHANGED <<aggVars, fetchVars, notifyVars, harvestVars, pureVars, scan, run>>

\* the server answers a request it has not answered yet, or sends a
\* notification, which has no id
RpcServerRespond ==
    /\ rpc.phase = "started"
    /\ \E k \in rpc.pending :
          rpc' = [rpc EXCEPT !.pending = @ \ {k},
                             !.queue = Append(@, ResponseTo(rpc, k))]
    /\ UNCHANGED <<aggVars, fetchVars, notifyVars, harvestVars, pureVars, scan, run>>

RpcServerNotify ==
    /\ rpc.phase = "started"
    /\ rpc.notes < MaxNotes
    /\ rpc' = [rpc EXCEPT !.notes = @ + 1,
                          !.queue = Append(@, [method |-> "notifications/message"])]
    /\ UNCHANGED <<aggVars, fetchVars, notifyVars, harvestVars, pureVars, scan, run>>

\* call / call_tool up to the loop: the next id is drawn and the request sent
RpcCall ==
    /\ rpc.phase = "started"
    /\ ~rpc.call.active
    /\ Len(rpc.sent) <= MaxCalls
    /\ rpc' = [rpc EXCEPT !.req_id = NextId(@),
                          !.sent = Append(@, [id |-> NextId(rpc.req_id),
                                              method |-> "tools/call"]),
                          !.pending = @ \cup {Len(rpc.sent) + 1},
                          !.call = [active |-> TRUE, req_id |-> NextId(rpc.req_id),
                                    request |-> Len(rpc.sent) + 1,
                                    elapsed |-> 0, discarded |-> <<>>],
                          !.result = NoReturn]
    /\ UNCHANGED <<aggVars, fetchVars, notifyVars, harvestVars, pureVars, scan, run>>

\* one turn of the loop: _wait(5) hands over the head of the queue, which is
\* returned when its id is the call's and dropped otherwise, or finds the
\* queue empty for 5 seconds
RpcWait ==
    /\ rpc.phase = "started"
    /\ rpc.call.active
    /\ rpc.call.elapsed < CALL_TIMEOUT
    /\ rpc' = IF rpc.queue = <<>>
              THEN [rpc EXCEPT !.call.elapsed = @ + WAIT_TIMEOUT]
              ELSE IF Matches(Head(rpc.queue), rpc.call.req_id)
              THEN [rpc EXCEPT !.queue = Tail(@),
                               !.call.active = FALSE,
                               !.result = Head(rpc.queue)]
              ELSE [rpc EXCEPT !.queue = Tail(@),
                               !.call.discarded = Append(@, Head(rpc.queue))]
    /\ UNCHANGED <<aggVars, fetchVars, notifyVars, harvestVars, pureVars, scan, run>>

RpcTimeout ==
    /\ rpc.phase = "started"
    /\ rpc.call.active
    /\ rpc.call.elapsed >= CALL_TIMEOUT
    /\ rpc' = [rpc EXCEPT !.call.active = FALSE, !.result = Timeout]
    /\ UNCHANGED <<aggVars, fetchVars, notifyVars, harvestVars, pureVars, scan, run>>

NextRpc ==
    \/ RpcStart
    \/ RpcServerRespond
    \/ RpcServerNotify
    \/ RpcCall
    \/ RpcWait
    \/ RpcTimeout

SpecRpc == Init /\ [][NextRpc]_vars

\* a call has returned
Returned == rpc.phase = "started" /\ rpc.call # NoToolCall /\ ~rpc.call.active

\* C33: a tool call returns a response whose id is the id of its own request,
\* or {"error": "timeout"} once 30 seconds have passed; every response with
\* another id that it read, the late answer to an earlier call among them,
\* is off the queue and dropped, and is not what the call returns.
C33_CallReturnsOwnIdOrTimeout ==
    /\ Returned =>
           /\ \/ rpc.result = Timeout /\ rpc.call.elapsed >= CALL_TIMEOUT
              \/ "id" \in DOMAIN rpc.result /\ rpc.result.id = rpc.call.req_id
           /\ rpc.variant = "next_id" =>
                  (rpc.result = Timeout \/ rpc.result.re = rpc.call.request)
    /\ (rpc.phase = "started" /\ rpc.call # NoToolCall) =>
           \A n \in 1..Len(rpc.call.discarded) :
               /\ ~Matches(rpc.call.discarded[n], rpc.call.req_id)
               /\ rpc.result # rpc.call.discarded[n]

\* the second call of an extractor client has read and dropped the late
\* answer to the first, which had timed out, and returned its own
C33_Witness ==
    /\ Returned
    /\ rpc.variant = "next_id"
    /\ rpc.call.req_id = 3
    /\ rpc.call.discarded # <<>>
    /\ \E n \in 1..Len(rpc.call.discarded) : rpc.call.discarded[n] = [id |-> 2, re |-> 2]
    /\ rpc.result = [id |-> 3, re |-> 3]

\* C34: every request a client sends carries an id that differs from the id
\* of every request it sent before, the initialize request included, in each
\* variant of the client.
C34_RequestIdsDistinct ==
    (rpc.phase = "started") =>
        \A i, j \in 1..Len(rpc.sent) : (i # j) => (rpc.sent[i].id # rpc.sent[j].id)

\* the same for the clients that draw the id of initialize with _next_id
NextIdRequestIdsDistinct ==
    (rpc.phase = "started" /\ rpc.variant = "next_id") =>
        \A i, j \in 1..Len(rpc.sent) : (i # j) => (rpc.sent[i].id # rpc.sent[j].id)

\* no call returns the answer to another request than its own
CallReturnsOwnAnswer ==
    Returned => (rpc.result = Timeout \/ rpc.result.re = rpc.call.request)

(***************************** eligibility ***********************************)
\* the keys get_unscanned would return now, without a limit, for a pool d
\* and a history h
EligibleKeys(d, h, days) ==
    LET ret == GetUnscanned(d, h, now, Len(d), days)
    IN {TargetKey(ret[n].chain, ret[n].address) : n \in 1..Len(ret)}
\* the pool with every record's last_scanned set to v
WithLastScanned(d, v) ==
    [n \in 1..Len(d) |-> [k |-> d[n].k, t |-> [d[n].t EXCEPT !.last_scanned = v]]]
InWindow(h, key, days) ==
    key \in DOMAIN h /\ FromIsoFormat(h[key].timestamp) > now - days * TicksPerDay

\* C35: whether a tracked target is eligible in get_unscanned depends on the
\* history and the clock alone: the eligible targets are those with no
\* history entry inside the window, whatever last_scanned their records
\* hold, so a target overwritten by add_manual_target (which resets
\* last_scanned) or merged again by a refresh stays excluded until the
\* window has passed.
C35_EligibilityFromHistoryOnly ==
    \A i \in Procs, days \in Days :
        /\ EligibleKeys(targets[i], scanned[i], days)
               = {targets[i][n].k : n \in {m \in 1..Len(targets[i]) :
                                              ~InWindow(scanned[i], targets[i][m].k, days)}}
        /\ EligibleKeys(WithLastScanned(targets[i], NoTime), scanned[i], days)
               = EligibleKeys(targets[i], scanned[i], days)
        /\ EligibleKeys(WithLastScanned(targets[i], IsoFormat(0)), scanned[i], days)
               = EligibleKeys(targets[i], scanned[i], days)

\* add_manual_target has just overwritten a target of the pool that was
\* scanned inside the one-day window: the record is the manual one and says
\* never scanned, and the target is not eligible
C35_Witness ==
    /\ lastOp.name = "add_manual_target"
    /\ \E i \in Procs : \E n \in 1..Len(targets[i]) :
          /\ Len(targets[i]) = Len(WarmMachine.targets)
          /\ DictHas(WarmMachine.targets, targets[i][n].k)
          /\ targets[i][n].k = TargetKey(lastOp.chain, lastOp.address)
          /\ targets[i][n].t.source = "manual"
          /\ targets[i][n].t.last_scanned = NoTime
          /\ InWindow(scanned[i], targets[i][n].k, 1)
          /\ targets[i][n].k \notin EligibleKeys(targets[i], scanned[i], 1)

(***************************** suppressed findings ***************************)
\* the payloads produced so far for the hash of f
PayloadsOf(f) ==
    {j \in 1..Len(payloads) : FindingHash(payloads[j].finding) = FindingHash(f)}

\* every mark in the file is the tick of the last payload produced for its hash
MarksAreLastPayloads ==
    sentFile.exists =>
        \A h \in DOMAIN sentFile.data :
            \E j \in 1..Len(payloads) :
                /\ FindingHash(payloads[j].finding) = h
                /\ payloads[j].at = FromIsoFormat(sentFile.data[h])
                /\ \A k \in PayloadsOf(payloads[j].finding) : payloads[k].at <= payloads[j].at

\* the loop body has just been run for a finding
CheckStep == loop' # loop /\ lastNotify'.name = "check"

\* C36: a finding that does not pass the notify check (confidence or
\* severity too low, or a duplicate inside the window) leaves the sent ledger
\* as it was, in memory and in the file; so every mark is the time of the
\* last notification issued for its hash, and a finding that meets both
\* thresholds passes again as soon as the last notification for its hash is
\* a full window old, however many duplicates were suppressed in between.
C36_SuppressedLeavesLedger ==
    /\ []MarksAreLastPayloads
    /\ [][(CheckStep /\ lastNotify'.ret = <<FALSE>>)
              => (sent' = sent /\ sentFile' = sentFile)]_vars
    /\ [][(/\ CheckStep
           /\ lastNotify'.findings[1].confidence >= config.min_confidence
           /\ SeverityMeetsThreshold(config, lastNotify'.findings[1].severity)
           /\ \A j \in PayloadsOf(lastNotify'.findings[1]) :
                 now - payloads[j].at >= DedupeTicks)
              => (lastNotify'.ret = <<TRUE>>)]_vars

\* a duplicate has just been suppressed one tick after the notification: the
\* mark still is the tick of that notification
C36_Witness ==
    /\ lastNotify.name = "check"
    /\ lastNotify.ret = <<FALSE>>
    /\ lastNotify.findings[1].confidence >= config.min_confidence
    /\ SeverityMeetsThreshold(config, lastNotify.findings[1].severity)
    /\ Len(payloads) = 1
    /\ FindingHash(payloads[1].finding) = FindingHash(lastNotify.findings[1])
    /\ now = payloads[1].at + 1
    /\ sent[FindingHash(lastNotify.findings[1])] = IsoFormat(payloads[1].at)
    /\ sentFile.data[FindingHash(lastNotify.findings[1])] = IsoFormat(payloads[1].at)

(***************************** the scan pipelines ****************************)
\* auto_scan.py and claude_scan.py: main() constructs an aggregator,
\* refreshes the pool, selects a batch, dispatches it and marks its targets.
\* run.phase is main's position; "raised" is main left by an exception.
AUTO_BATCH_SIZE == 20
CLAUDE_BATCH_SIZE == 5
Scripts == {"auto_scan", "claude_scan"}
BatchSizeOf(script) ==
    IF script = "auto_scan" THEN AUTO_BATCH_SIZE ELSE CLAUDE_BATCH_SIZE

\* JulesClient.start() of auto_scan.py: Popen raises when the server cannot
\* be launched; otherwise start() returns True, answered or not
StartOutcomes == {"started", "raises"}
\* client.call(): a result naming a session, a result without one, the
\* timeout answer, or _send raising on the pipe of a server that has died
CallOutcomes == {"session", "no_session", "timeout", "raises"}
\* subprocess.run in spawn_audit: exit code 0, another exit code, or
\* TimeoutExpired / FileNotFoundError raised
SpawnOutcomes == {"spawned", "failed", "raises"}

\* create_jules_sessions on a batch of at most ten targets: the session ids
\* it returns, or "raised"
CreateJulesSessions(start, resp) ==
    IF start = "raises" \/ resp = "raises" THEN [raised |-> TRUE, ret |-> <<>>]
    ELSE [raised |-> FALSE, ret |-> IF resp = "session" THEN <<"s1">> ELSE <<>>]

\* the body of claude_scan's loop with the mark inside `if result["spawned"]`
ClaudeLoopBodyMarksSpawned(m, t, outcome, clock) ==
    IF outcome = "raises" THEN [raised |-> TRUE, m |-> m]
    ELSE [raised |-> FALSE,
          m |-> IF outcome = "spawned"
                THEN MarkScanned(m, t.address, t.chain, NONE, clock, clock)
                ELSE m]

\* the body of claude_scan's loop for target t: spawn_audit, then mark_scanned
ClaudeLoopBody(m, t, outcome, clock) ==
    IF outcome = "raises" THEN [raised |-> TRUE, m |-> m]
    ELSE [raised |-> FALSE,
          m |-> MarkScanned(m, t.address, t.chain, NONE, clock, clock)]

\* main() up to the selection: TargetAggregator(), refresh_all(),
\* get_batch_for_jules(batch_size), and the return on an empty batch
PipeSelect ==
    /\ run.phase = "idle"
    /\ \E script \in Scripts, bs \in BountyBatches, ps \in ProtocolBatches :
          LET l == LoadState(targetsFile, scannedFile)
              m0 == [Machine(1) EXCEPT !.targets = l.targets, !.scanned = l.scanned]
              r == RefreshAll(m0, bs, ps)
              b == GetBatchForJules(r.m, now, BatchSizeOf(script))
          IN /\ Commit(1, b.m, [Op("refresh_all", 1) EXCEPT !.bounty = bs,
                                                           !.protocols = ps,
                                                           !.result = r.ret])
             /\ run' = [phase |-> IF b.ret = <<>> THEN "done"
                                  ELSE IF script = "auto_scan" THEN "dispatch"
                                  ELSE "loop",
                        script |-> script, batch |-> b.ret, i |-> 1,
                        outcomes |-> <<>>, session_ids |-> <<>>]
    /\ UNCHANGED <<now, steps, alive>>
    /\ UNCHANGED <<fetchVars, notifyVars, harvestVars, pureVars, scan, rpc>>

\* auto_scan: session_ids = create_jules_sessions(targets, batch_size=10)
AutoDispatch ==
    /\ run.phase = "dispatch"
    /\ \E start \in StartOutcomes, resp \in CallOutcomes :
          LET r == CreateJulesSessions(start, resp)
          IN run' = [run EXCEPT !.phase = IF r.raised THEN "raised" ELSE "mark",
                                !.outcomes = <<start, resp>>,
                                !.session_ids = r.ret]
    /\ UNCHANGED <<aggVars, fetchVars, notifyVars, harvestVars, pureVars, scan, rpc>>

\* auto_scan: one turn of `for t in targets: agg.mark_scanned(...)`
AutoMark ==
    /\ run.phase = "mark"
    /\ LET t == run.batch[run.i]
       IN Commit(1, MarkScanned(Machine(1), t.address, t.chain, NONE, now, now),
                 [Op("mark_scanned", 1) EXCEPT !.address = t.address,
                                               !.chain = t.chain])
    /\ run' = [run EXCEPT !.i = @ + 1,
                          !.phase = IF run.i = Len(run.batch) THEN "done" ELSE "mark"]
    /\ UNCHANGED <<now, steps, alive>>
    /\ UNCHANGED <<fetchVars, notifyVars, harvestVars, pureVars, scan, rpc>>

\* claude_scan: one turn of `for t in targets`
ClaudeLoop ==
    /\ run.phase = "loop"
    /\ \E outcome \in SpawnOutcomes :
          LET t == run.batch[run.i]
              r == ClaudeLoopBody(Machine(1), t, outcome, now)
          IN /\ Commit(1, r.m, [Op("mark_scanned", 1) EXCEPT !.address = t.address,
                                                             !.chain = t.chain])
             /\ run' = [run EXCEPT !.i = IF r.raised THEN @ ELSE @ + 1,
                                   !.outcomes = Append(@, outcome),
                                   !.phase = IF r.raised THEN "raised"
                                             ELSE IF run.i = Len(run.batch) THEN "done"
                                             ELSE "loop"]
    /\ UNCHANGED <<now, steps, alive>>
    /\ UNCHANGED <<fetchVars, notifyVars, harvestVars, pureVars, scan, rpc>>

NextPipe == PipeSelect \/ AutoDispatch \/ AutoMark \/ ClaudeLoop \/ Tick
SpecPipe == Init /\ [][NextPipe]_vars

\* the script has ended, by return or by an exception
Ended == run.phase \in {"done", "raised"}

\* target t of the batch is in the history and is not selected now
Excluded(t) ==
    /\ TargetKey(t.chain, t.address) \in DOMAIN scanned[1]
    /\ \A j \in 1..Len(GetBatchForJules(Machine(1), now, BatchSizeOf(run.script)).ret) :
          LET e == GetBatchForJules(Machine(1), now, BatchSizeOf(run.script)).ret[j]
          IN TargetKey(e.chain, e.address) # TargetKey(t.chain, t.address)

\* C37 as stated: once a pipeline has ended, however the dispatch went,
\* every target of the selected batch is marked scanned and is not selected
\* again inside the seven days
C37_BatchMarkedWhateverOutcome ==
    Ended => \A j \in 1..Len(run.batch) : Excluded(run.batch[j])

\* C37: once a pipeline has returned, every target of the selected
\* batch is marked scanned and is not selected again inside the seven days,
\* whether or not a session was created or a subagent spawned; a pipeline
\* left by an exception has marked the targets before the failing one
\* (claude_scan) or none (auto_scan).
C37_BatchMarkedAfterReturn ==
    /\ (run.phase = "done") => \A j \in 1..Len(run.batch) : Excluded(run.batch[j])
    /\ (run.phase = "raised" /\ run.script = "claude_scan") =>
           \A j \in 1..(run.i - 1) : Excluded(run.batch[j])

\* a batch of two has been marked one tick after a dispatch that produced
\* nothing: a timed-out session creation, or a failed spawn
C37_Witness ==
    /\ run.phase = "done"
    /\ Len(run.batch) = 2
    /\ now >= 1
    /\ \/ run.script = "auto_scan" /\ run.outcomes = <<"started", "timeout">>
       \/ run.script = "claude_scan" /\ run.outcomes = <<"failed", "failed">>
    /\ \A j \in 1..2 : Excluded(run.batch[j])

(***************************** harvested findings in the ledger **************)
\* harvest.py with the findings the extractor makes of the sessions' texts:
\* harvest_session for every completed session, then process_results.
TextBoldCritical ==
    <<[k |-> "bold", severity |-> "Critical"],
      Prose(<<"R", "e", "-", "e", "n", "t", "r", "a", "n", "c", "y">>)>>
HarvestTexts == {TextHeading, TextBoldCritical, TextBold, TextProse}

\* a completed session as the server reports it: id, artifacts, activities
CompletedSession(sid, text, pr) ==
    [id |-> sid,
     artifacts |-> IF pr THEN [session |-> sid, pullRequest |-> [url |-> "https://pr/" \o sid]]
                   ELSE [session |-> sid],
     activities |-> <<[id |-> "a", agentOutput |-> [output |-> text]]>>]
CompletedLists ==
    {<<CompletedSession("s1", t, pr)>> : t \in HarvestTexts, pr \in BOOLEAN}
    \cup {<<CompletedSession("s1", t, FALSE), CompletedSession("s2", u, pr)>> :
            t \in HarvestTexts, u \in HarvestTexts, pr \in BOOLEAN}

\* harvest_session: parse_findings, then the session id on every finding
HarvestSession(session) ==
    LET findings == ParseFindings(session.artifacts, session.activities)
    IN SessionResult(session.id,
                     [i \in 1..Len(findings) |->
                         [findings[i] EXCEPT !.session_id = session.id]])

\* main of harvest.py up to the call of process_results
HarvestSessionsStart ==
    /\ ~loop.active
    /\ steps < MaxSteps
    /\ steps' = steps + 1
    /\ sent' = LoadSent(sentFile)
    /\ \E completed \in CompletedLists :
          LET results == [i \in 1..Len(completed) |-> HarvestSession(completed[i])]
          IN loop' = [active |-> TRUE, pending |-> Flatten(results), to_notify |-> <<>>]
    /\ lastNotify' = [NoNotify EXCEPT !.name = "start"]
    /\ UNCHANGED <<config, sentFile, payloads, now, alive, targets, scanned,
                   targetsFile, scannedFile, lastOp, fetchVars, pureVars, toolVars>>

NextHarvestSessions ==
    \/ HarvestSessionsStart
    \/ HarvestCheck
    \/ HarvestReturn
    \/ HarvestTick

SpecHarvestSessions == InitNotify /\ [][NextHarvestSessions]_vars

\* the findings the run holds: waiting, just checked, or notified
HarvestedFindings ==
    {loop.pending[j] : j \in 1..Len(loop.pending)}
        \cup {lastNotify.findings[j] : j \in 1..Len(lastNotify.findings)}
        \cup {payloads[j].finding : j \in 1..Len(payloads)}

SameTypeAndSeverity(f, g) == f.vuln_type = g.vuln_type /\ f.severity = g.severity

\* C38: every harvested finding has the empty contract_address; two
\* harvested findings have the same dedup key exactly when they agree on
\* vuln_type and severity, whatever their session, description or pull
\* request; and a finding passes the check only if no finding of the same
\* vuln_type and severity, of any session, was notified inside the window.
C38_HarvestedKeyIsTypeAndSeverity ==
    /\ \A f \in HarvestedFindings : f.contract_address = ""
    /\ \A f \in HarvestedFindings : \A g \in HarvestedFindings :
          (FindingHash(f) = FindingHash(g)) <=> SameTypeAndSeverity(f, g)
    /\ (lastNotify.name = "check" /\ lastNotify.ret = <<TRUE>>) =>
           \A j \in 1..(Len(payloads) - 1) :
               SameTypeAndSeverity(payloads[j].finding, lastNotify.findings[1])
                   => now - payloads[j].at >= DedupeTicks

\* a finding of session s2 that meets both thresholds has just been
\* suppressed by the notification, inside the window, of a finding of
\* session s1 with another description
C38_Witness ==
    /\ lastNotify.name = "check"
    /\ lastNotify.ret = <<FALSE>>
    /\ lastNotify.findings[1].session_id = "s2"
    /\ lastNotify.findings[1].confidence >= config.min_confidence
    /\ SeverityMeetsThreshold(config, lastNotify.findings[1].severity)
    /\ \E j \in 1..Len(payloads) :
          /\ payloads[j].finding.session_id = "s1"
          /\ payloads[j].finding.description # lastNotify.findings[1].description
          /\ SameTypeAndSeverity(payloads[j].finding, lastNotify.findings[1])
          /\ now - payloads[j].at < DedupeTicks

(***************************** the files as JSON *****************************)
\* What json.dump writes for the values a ScanTarget and a history entry
\* hold, and what json.load reads back: None is written null, a str as a
\* string, an int as an integer literal, a float as its repr (a literal with a
\* fraction); null is read as None, a string as str, an integer literal as
\* int, a literal with a fraction as float.
ScanTargetFields ==
    {"address", "chain", "name", "program", "max_bounty", "tvl", "priority_score",
     "source", "category", "url", "last_scanned"}
\* the type each field holds when it is not None (a time is an ISO string)
FieldTypes ==
    [address |-> "str", chain |-> "str", name |-> "str", program |-> "str",
     max_bounty |-> "int", tvl |-> "float", priority_score |-> "float",
     source |-> "str", category |-> "str", url |-> "str", last_scanned |-> "time",
     timestamp |-> "time", session_id |-> "str"]
OptionalFields == {"program", "url", "last_scanned", "session_id"}
\* None as the field holds it
NoneOf(field) == IF FieldTypes[field] = "time" THEN NoTime ELSE NONE

JsonNull == [json |-> "null"]
JsonDumpField(field, v) ==
    IF field \in OptionalFields /\ v = NoneOf(field) THEN JsonNull
    ELSE [json |-> IF FieldTypes[field] \in {"str", "time"} THEN "string"
                   ELSE IF FieldTypes[field] = "int" THEN "integer"
                   ELSE "fraction",
          text |-> v]
JsonLoadField(field, j) == IF j.json = "null" THEN NoneOf(field) ELSE j.text

\* asdict(t) and json.dump of it; json.load and ScanTarget(**t)
AsDict(t) == [field \in ScanTargetFields |-> t[field]]
JsonDumpObject(d) == [field \in DOMAIN d |-> JsonDumpField(field, d[field])]
JsonLoadObject(j) == [field \in DOMAIN j |-> JsonLoadField(field, j[field])]

\* the text of targets.json and of scanned.json for a memory
JsonDumpTargets(d) == [i \in 1..Len(d) |-> JsonDumpObject(AsDict(d[i].t))]
JsonDumpHistory(h) == [k \in DOMAIN h |-> JsonDumpObject(h[k])]

\* _save_state, the two files holding the text json.dump writes
SaveStateJson(m) ==
    [tfile |-> [exists |-> TRUE, text |-> JsonDumpTargets(m.targets)],
     sfile |-> [exists |-> TRUE, text |-> JsonDumpHistory(m.scanned)]]

\* _load_state on the two files
LoadStateJson(tfile, sfile) ==
    [targets |-> IF tfile.exists
                 THEN LoadTargets([i \in 1..Len(tfile.text) |->
                                      JsonLoadObject(tfile.text[i])], <<>>)
                 ELSE <<>>,
     scanned |-> IF sfile.exists
                 THEN [k \in DOMAIN sfile.text |-> JsonLoadObject(sfile.text[k])]
                 ELSE EmptyHistory]

\* an aggregator constructed after aggregator i called _save_state
LoadedAfterSave(i) ==
    LET saved == SaveStateJson(Machine(i))
    IN LoadStateJson(saved.tfile, saved.sfile)

\* C39: in every state the public operations reach, an aggregator
\* constructed on the data directory after _save_state holds the pool of the
\* one that saved (the same keys in the same order, every field of every
\* target the same) and the same history; and what the model keeps in the
\* two files is what json.load reads from what json.dump wrote.
C39_SaveLoadRoundTrip ==
    \A i \in Procs :
        alive[i] =>
            /\ LoadedAfterSave(i).targets = targets[i]
            /\ LoadedAfterSave(i).scanned = scanned[i]
            /\ LoadState(SaveState(Machine(i)).tfile, SaveState(Machine(i)).sfile)
                   = LoadedAfterSave(i)

\* the pool holds a target whose address is written in upper case under a
\* lower-case key, a target without program and url, and one with a
\* program; the history holds an entry without a session id
C39_Witness ==
    \E i \in Procs :
        /\ alive[i]
        /\ \E n \in 1..Len(targets[i]) :
              /\ targets[i][n].t.address = AddrUpper
              /\ targets[i][n].k = TargetKey(targets[i][n].t.chain, AddrLower)
        /\ \E n \in 1..Len(targets[i]) :
              targets[i][n].t.program = NONE /\ targets[i][n].t.url = NONE
        /\ \E k \in DOMAIN scanned[i] : scanned[i][k].session_id = NONE
        /\ \E n \in 1..Len(targets[i]) : targets[i][n].t.last_scanned # NoTime
        /\ LoadedAfterSave(i).targets = targets[i]

====
